---- MODULE Spec2Model ----
(***************************************************************************)
(* Model of the emotion-detection state agent (src/agent/state_agent.py).  *)
(*                                                                         *)
(* Numbers.  The agent computes with floats; the model uses fixed point:   *)
(*   - sentiment scores are in thousandths (0..1000 stands for 0.0..1.0),  *)
(*   - valence, arousal and confidence of an emotion vector are in         *)
(*     hundredths (valence -100..100, arousal and confidence 0..100),      *)
(*     which is what round(x, 2) produces,                                 *)
(*   - the intensity score and the temperature are in thousandths.         *)
(* round(x, 2) of a float product is modelled with the results IEEE-754    *)
(* doubles give at the exact decimal ties (the TiesUp sets below).         *)
(***************************************************************************)
EXTENDS Integers, Sequences, FiniteSets, TLC

VARIABLES
    args,           \* the arguments of the call under way
    ret,            \* what the call returned, NotCalled before it returns
    pc,             \* the position of process_text
    frame,          \* the local variables of process_text assigned so far
    calls,          \* the calls made to the external services and the
                    \* errors logged, in order
    openai_client,  \* StateAgent.openai_client is set (an API key was found)
    http,           \* the /analyze request under way and its response
    db              \* the rows of the tables emotion_analyses and user_sessions

vars == <<args, ret, pc, frame, calls, openai_client, http, db>>

\* the variables of the backend, which the agent leaves alone
apiVars == <<http, db>>

\* no request under way
NoRequest == [pc |-> "none"]

\* the tables of a database nothing was written to
NoRows == [emotion_analyses |-> <<>>, user_sessions |-> <<>>]

\* the variables of process_text, which a call of a single function leaves alone
agentVars == <<pc, frame, calls, openai_client>>

\* no process_text under way
AgentIdle ==
    /\ pc = "idle"
    /\ frame = <<>>
    /\ calls = <<>>
    /\ openai_client = FALSE
    /\ http = NoRequest
    /\ db = NoRows

----------------------------------------------------------------------------
(* Generic helpers *)

Abs(x) == IF x < 0 THEN -x ELSE x

Min(a, b) == IF a <= b THEN a ELSE b

Max(a, b) == IF a >= b THEN a ELSE b

\* dict.get(key, default)
Get(d, k, default) == IF k \in DOMAIN d THEN d[k] ELSE default

\* max of a non-empty set of integers
SetMax(S) == CHOOSE x \in S : \A y \in S : y <= x

----------------------------------------------------------------------------
(* round(x, 2) on the float values the agent produces *)

\* round(c, 2) for a score c given in thousandths: the exact ties (c % 10 = 5)
\* at which the double nearest to c/1000 lies above the tie and rounds up
TiesUpConfidence ==
    {5, 25, 35, 55, 65, 85, 95, 115, 135, 165, 195, 225, 255, 265, 275, 315,
     325, 335, 375, 385, 395, 405, 445, 455, 465, 505, 515, 525, 535, 545,
     555, 635, 645, 655, 665, 675, 685, 755, 765, 775, 785, 795, 805, 875,
     885, 895, 905, 915, 925, 935}

\* round(base * c, 2) for a base given in tenths and a score c in thousandths:
\* the scores at which the double product lies above the exact tie
TiesUpProduct(base) ==
    CASE base = 6 -> {225, 275, 325, 425, 525, 625, 675, 875, 925}
      [] base = 7 -> {450, 550}
      [] base = 2 -> {25, 125, 225, 275, 325, 375, 425, 475, 525, 675, 775,
                      825, 875, 925, 975}
      [] base = 5 -> {10, 50, 70, 110, 130, 170, 190, 230, 270, 330, 390, 450,
                      510, 530, 550, 630, 650, 670, 750, 770, 790, 810, 890,
                      910, 930}
      [] OTHER -> {}

\* n / d rounded to the nearest integer (n >= 0), an exact tie going up iff tieUp
RoundNearest(n, d, tieUp) ==
    LET q == n \div d
        r == n % d
    IN  IF 2 * r > d THEN q + 1
        ELSE IF 2 * r < d THEN q
        ELSE IF tieUp THEN q + 1 ELSE q

\* round(confidence, 2): thousandths -> hundredths
RoundConfidence(c) == RoundNearest(c, 10, c \in TiesUpConfidence)

\* round(base * confidence, 2): base in tenths (signed), c in thousandths
\* -> hundredths; round() is symmetric in the sign
RoundProduct(base, c) ==
    LET m == RoundNearest(Abs(base) * c, 100, c \in TiesUpProduct(Abs(base)))
    IN  IF base < 0 THEN -m ELSE m

----------------------------------------------------------------------------
(* StateAgent._initialize_emotion_mapping *)

SentimentLabels == {"POSITIVE", "NEGATIVE", "NEUTRAL", "MIXED"}

\* base valence and base arousal in tenths
emotion_mapping ==
    [POSITIVE |->
        [emotion |-> "Joy / Optimism / Excitement",
         valence |-> 8, arousal |-> 6,
         response_template |-> "That sounds great! I'd love to hear more about what's going well for you."],
     NEGATIVE |->
        [emotion |-> "Sadness / Anger / Fear / Frustration",
         valence |-> -8, arousal |-> 7,
         response_template |-> "I can hear that this is really difficult for you. I'm here to listen and help however I can."],
     NEUTRAL |->
        [emotion |-> "Calm / Indifference / Contemplative",
         valence |-> 0, arousal |-> 2,
         response_template |-> "I appreciate you sharing that with me. How can I help you today?"],
     MIXED |->
        [emotion |-> "Conflicted / Uncertain / Ambivalent",
         valence |-> 2, arousal |-> 5,
         response_template |-> "It sounds like you're working through some complex thoughts. I'm here to help you sort through things."]]

----------------------------------------------------------------------------
(* StateAgent.map_sentiment_to_emotion *)

\* a bug the mapper could have: valence and arousal scaled by the confidence
\* already rounded to two decimals instead of by the maximum score itself
map_sentiment_to_emotion_rounded_first(sentiment, scores) ==
    LET emotion_data == IF sentiment \in DOMAIN emotion_mapping
                        THEN emotion_mapping[sentiment]
                        ELSE emotion_mapping["NEUTRAL"]
        confidence == RoundConfidence(SetMax({scores[k] : k \in DOMAIN scores}))
    IN  [emotion |-> emotion_data.emotion,
         valence |-> RoundProduct(emotion_data.valence, 10 * confidence),
         arousal |-> RoundProduct(emotion_data.arousal, 10 * confidence),
         confidence |-> confidence,
         response_template |-> emotion_data.response_template]

\* scores: a non-empty function from class names to thousandths
\* a bug the mapper could have: the confidence taken as the sum of the scores
map_sentiment_to_emotion_sum_confidence(sentiment, scores) ==
    LET emotion_data == IF sentiment \in DOMAIN emotion_mapping
                        THEN emotion_mapping[sentiment]
                        ELSE emotion_mapping["NEUTRAL"]
        confidence == Get(scores, "Positive", 0) + Get(scores, "Negative", 0)
                      + Get(scores, "Neutral", 0) + Get(scores, "Mixed", 0)
    IN  [emotion |-> emotion_data.emotion,
         valence |-> RoundProduct(emotion_data.valence, confidence),
         arousal |-> RoundProduct(emotion_data.arousal, confidence),
         confidence |-> RoundConfidence(confidence),
         response_template |-> emotion_data.response_template]

map_sentiment_to_emotion(sentiment, scores) ==
    LET emotion_data == IF sentiment \in DOMAIN emotion_mapping
                        THEN emotion_mapping[sentiment]
                        ELSE emotion_mapping["NEUTRAL"]
        confidence == SetMax({scores[k] : k \in DOMAIN scores})
    IN  [emotion |-> emotion_data.emotion,
         valence |-> RoundProduct(emotion_data.valence, confidence),
         arousal |-> RoundProduct(emotion_data.arousal, confidence),
         confidence |-> RoundConfidence(confidence),
         response_template |-> emotion_data.response_template]

----------------------------------------------------------------------------
(* StateAgent._calculate_emotional_intensity *)

\* intensity_score in thousandths
intensity_score(emotion_data) ==
    LET confidence == Get(emotion_data, "confidence", 50)
        valence == Abs(Get(emotion_data, "valence", 0))
        arousal == Get(emotion_data, "arousal", 0)
    IN  (confidence * 4) + (valence * 3) + (arousal * 3)

\* The float sum confidence*0.4 + |valence|*0.3 + arousal*0.3 of hundredths
\* differs from the exact sum only where the exact sum equals a threshold:
\* there the float sum is above the threshold for the vectors listed here,
\* as <<confidence, |valence|>> (the arousal is what makes the sum equal).
FloatAbove300 ==
    {<<0, 7>>, <<0, 8>>, <<0, 9>>, <<0, 10>>, <<0, 11>>, <<0, 32>>, <<0, 33>>,
     <<0, 34>>, <<0, 44>>, <<0, 45>>, <<0, 46>>, <<0, 54>>, <<0, 55>>, <<0,
     56>>, <<0, 66>>, <<0, 67>>, <<0, 68>>, <<0, 89>>, <<0, 90>>, <<0, 91>>,
     <<0, 92>>, <<0, 93>>, <<3, 3>>, <<3, 4>>, <<3, 5>>, <<3, 6>>, <<3, 7>>,
     <<3, 8>>, <<3, 28>>, <<3, 40>>, <<3, 42>>, <<3, 43>>, <<3, 44>>, <<3,
     45>>, <<3, 46>>, <<3, 50>>, <<3, 51>>, <<3, 52>>, <<3, 53>>, <<3, 54>>,
     <<3, 56>>, <<3, 62>>, <<3, 63>>, <<3, 64>>, <<3, 65>>, <<3, 66>>, <<3,
     67>>, <<3, 68>>, <<3, 73>>, <<3, 74>>, <<3, 85>>, <<3, 86>>, <<3, 87>>,
     <<3, 88>>, <<3, 89>>, <<3, 90>>, <<3, 91>>, <<3, 92>>, <<3, 93>>, <<6,
     0>>, <<6, 1>>, <<6, 2>>, <<6, 3>>, <<6, 4>>, <<6, 24>>, <<6, 25>>, <<6,
     26>>, <<6, 27>>, <<6, 28>>, <<6, 36>>, <<6, 37>>, <<6, 46>>, <<6, 81>>,
     <<6, 84>>, <<6, 85>>, <<6, 86>>, <<6, 87>>, <<6, 88>>, <<6, 89>>, <<6,
     90>>, <<6, 91>>, <<6, 92>>, <<9, 20>>, <<9, 21>>, <<9, 22>>, <<9, 23>>,
     <<9, 32>>, <<9, 33>>, <<9, 34>>, <<9, 42>>, <<9, 43>>, <<9, 44>>, <<9,
     45>>, <<9, 46>>, <<9, 54>>, <<9, 55>>, <<9, 56>>, <<9, 65>>, <<9, 66>>,
     <<9, 67>>, <<9, 68>>, <<12, 16>>, <<12, 17>>, <<12, 18>>, <<12, 28>>,
     <<12, 29>>, <<12, 30>>, <<12, 31>>, <<12, 32>>, <<12, 33>>, <<12, 34>>,
     <<12, 50>>, <<12, 51>>, <<12, 52>>, <<12, 53>>, <<12, 54>>, <<12, 55>>,
     <<12, 56>>, <<12, 73>>, <<12, 74>>, <<15, 12>>, <<15, 13>>, <<15, 14>>,
     <<15, 24>>, <<15, 25>>, <<15, 26>>, <<15, 27>>, <<15, 28>>, <<15, 34>>,
     <<15, 46>>, <<15, 69>>, <<15, 70>>, <<15, 71>>, <<15, 72>>, <<15, 73>>,
     <<15, 74>>, <<18, 8>>, <<18, 20>>, <<18, 21>>, <<18, 22>>, <<18, 23>>,
     <<18, 42>>, <<18, 43>>, <<18, 44>>, <<18, 45>>, <<18, 46>>, <<18, 65>>,
     <<18, 66>>, <<18, 67>>, <<18, 68>>, <<21, 4>>, <<21, 5>>, <<21, 6>>, <<21,
     7>>, <<21, 8>>, <<21, 16>>, <<21, 17>>, <<21, 18>>, <<21, 19>>, <<21,
     20>>, <<21, 21>>, <<21, 22>>, <<21, 23>>, <<21, 26>>, <<21, 27>>, <<21,
     28>>, <<21, 38>>, <<21, 39>>, <<21, 40>>, <<21, 42>>, <<21, 43>>, <<21,
     44>>, <<21, 45>>, <<21, 46>>, <<21, 61>>, <<21, 62>>, <<21, 63>>, <<21,
     64>>, <<21, 65>>, <<21, 66>>, <<21, 67>>, <<21, 68>>, <<24, 0>>, <<24,
     1>>, <<24, 2>>, <<24, 12>>, <<24, 13>>, <<24, 14>>, <<24, 15>>, <<24,
     16>>, <<24, 17>>, <<24, 22>>, <<24, 23>>, <<24, 34>>, <<24, 35>>, <<24,
     36>>, <<24, 37>>, <<24, 45>>, <<24, 46>>, <<24, 57>>, <<24, 58>>, <<24,
     59>>, <<24, 60>>, <<24, 61>>, <<24, 62>>, <<24, 63>>, <<24, 64>>, <<24,
     65>>, <<24, 66>>, <<24, 67>>, <<24, 68>>, <<27, 0>>, <<27, 1>>, <<27, 2>>,
     <<27, 8>>, <<27, 9>>, <<27, 10>>, <<27, 11>>, <<27, 12>>, <<27, 13>>,
     <<27, 14>>, <<27, 15>>, <<27, 16>>, <<27, 17>>, <<27, 18>>, <<27, 19>>,
     <<27, 20>>, <<27, 21>>, <<27, 22>>, <<27, 30>>, <<27, 31>>, <<27, 32>>,
     <<27, 33>>, <<27, 34>>, <<27, 35>>, <<27, 36>>, <<27, 37>>, <<27, 42>>,
     <<27, 43>>, <<27, 44>>, <<27, 45>>, <<27, 46>>, <<27, 53>>, <<27, 54>>,
     <<27, 55>>, <<27, 56>>, <<27, 57>>, <<27, 58>>, <<27, 59>>, <<27, 60>>,
     <<27, 61>>, <<27, 62>>, <<27, 63>>, <<27, 64>>, <<30, 4>>, <<30, 5>>,
     <<30, 14>>, <<30, 26>>, <<30, 27>>, <<30, 28>>, <<30, 49>>, <<30, 50>>,
     <<30, 51>>, <<30, 52>>, <<30, 53>>, <<30, 54>>, <<30, 55>>, <<30, 56>>,
     <<33, 0>>, <<33, 1>>, <<33, 2>>, <<33, 3>>, <<33, 4>>, <<33, 5>>, <<33,
     10>>, <<33, 11>>, <<33, 12>>, <<33, 13>>, <<33, 14>>, <<33, 22>>, <<33,
     23>>, <<33, 24>>, <<33, 25>>, <<33, 26>>, <<33, 27>>, <<33, 28>>, <<33,
     33>>, <<33, 34>>, <<33, 45>>, <<33, 46>>, <<33, 47>>, <<33, 48>>, <<33,
     49>>, <<33, 50>>, <<33, 51>>, <<33, 52>>, <<33, 53>>, <<33, 54>>, <<33,
     55>>, <<33, 56>>, <<36, 42>>, <<36, 43>>, <<36, 44>>, <<36, 45>>, <<36,
     46>>, <<39, 0>>, <<39, 1>>, <<39, 2>>, <<39, 3>>, <<39, 4>>, <<39, 5>>,
     <<39, 6>>, <<39, 8>>, <<39, 9>>, <<39, 10>>, <<39, 11>>, <<39, 12>>, <<39,
     13>>, <<39, 14>>, <<39, 15>>, <<39, 16>>, <<39, 17>>, <<39, 18>>, <<39,
     19>>, <<39, 20>>, <<39, 21>>, <<39, 22>>, <<39, 23>>, <<39, 24>>, <<39,
     25>>, <<39, 26>>, <<39, 27>>, <<39, 28>>, <<39, 29>>, <<39, 30>>, <<39,
     31>>, <<39, 37>>, <<39, 38>>, <<39, 39>>, <<39, 40>>, <<39, 41>>, <<39,
     42>>, <<39, 43>>, <<39, 44>>, <<39, 45>>, <<39, 46>>, <<39, 47>>, <<39,
     48>>, <<42, 0>>, <<42, 1>>, <<42, 2>>, <<42, 4>>, <<42, 10>>, <<42, 11>>,
     <<42, 12>>, <<42, 13>>, <<42, 14>>, <<42, 15>>, <<42, 16>>, <<42, 17>>,
     <<42, 21>>, <<42, 22>>, <<42, 23>>, <<42, 33>>, <<42, 34>>, <<42, 35>>,
     <<42, 36>>, <<42, 37>>, <<42, 38>>, <<42, 39>>, <<42, 40>>, <<42, 42>>,
     <<42, 43>>, <<42, 44>>, <<45, 0>>, <<45, 1>>, <<45, 2>>, <<45, 3>>, <<45,
     4>>, <<45, 6>>, <<45, 7>>, <<45, 8>>, <<45, 9>>, <<45, 10>>, <<45, 11>>,
     <<45, 12>>, <<45, 13>>, <<45, 14>>, <<45, 15>>, <<45, 16>>, <<45, 17>>,
     <<45, 18>>, <<45, 19>>, <<45, 20>>, <<45, 21>>, <<45, 22>>, <<45, 23>>,
     <<45, 29>>, <<45, 30>>, <<45, 31>>, <<45, 32>>, <<45, 33>>, <<45, 34>>,
     <<45, 35>>, <<45, 36>>, <<45, 37>>, <<45, 38>>, <<45, 39>>, <<45, 40>>,
     <<48, 2>>, <<48, 3>>, <<48, 4>>, <<48, 5>>, <<48, 13>>, <<48, 14>>, <<48,
     25>>, <<48, 26>>, <<48, 27>>, <<48, 28>>, <<48, 29>>, <<48, 30>>, <<48,
     31>>, <<48, 32>>, <<48, 33>>, <<48, 34>>, <<51, 0>>, <<51, 1>>, <<51, 2>>,
     <<51, 3>>, <<51, 4>>, <<51, 5>>, <<51, 9>>, <<51, 10>>, <<51, 11>>, <<51,
     12>>, <<51, 13>>, <<51, 14>>, <<51, 21>>, <<51, 22>>, <<51, 23>>, <<51,
     24>>, <<51, 25>>, <<51, 26>>, <<51, 27>>, <<51, 28>>, <<51, 29>>, <<51,
     30>>, <<51, 31>>, <<51, 32>>, <<54, 0>>, <<54, 1>>, <<54, 2>>, <<54, 3>>,
     <<54, 4>>, <<54, 5>>, <<54, 6>>, <<54, 7>>, <<54, 8>>, <<54, 9>>, <<54,
     10>>, <<54, 11>>, <<54, 17>>, <<54, 18>>, <<54, 19>>, <<54, 20>>, <<54,
     21>>, <<54, 22>>, <<54, 23>>, <<54, 24>>, <<54, 25>>, <<54, 26>>, <<54,
     27>>, <<54, 28>>, <<60, 9>>, <<60, 10>>, <<60, 11>>, <<63, 5>>, <<63, 6>>,
     <<63, 7>>, <<63, 8>>, <<63, 9>>, <<63, 10>>, <<63, 11>>, <<66, 1>>, <<66,
     2>>, <<66, 3>>, <<66, 4>>, <<66, 5>>, <<66, 6>>, <<66, 7>>, <<66, 8>>,
     <<66, 9>>, <<66, 10>>, <<66, 11>>, <<75, 0>>}

FloatAbove500 ==
    {<<44, 90>>, <<44, 91>>, <<44, 92>>, <<44, 93>>, <<56, 74>>, <<77, 8>>,
     <<77, 9>>, <<77, 10>>, <<77, 11>>, <<77, 27>>, <<77, 28>>, <<77, 46>>,
     <<77, 47>>, <<77, 48>>, <<77, 49>>, <<77, 50>>, <<77, 51>>, <<77, 52>>,
     <<77, 53>>, <<77, 54>>, <<77, 55>>, <<77, 56>>, <<80, 4>>, <<80, 5>>,
     <<80, 6>>, <<80, 7>>, <<80, 8>>, <<80, 9>>, <<80, 10>>, <<80, 11>>, <<80,
     23>>, <<80, 24>>, <<80, 25>>, <<80, 26>>, <<80, 27>>, <<80, 28>>, <<80,
     42>>, <<80, 43>>, <<80, 44>>, <<80, 45>>, <<80, 46>>, <<80, 47>>, <<80,
     48>>, <<80, 49>>, <<80, 50>>, <<80, 51>>, <<80, 52>>, <<80, 53>>, <<80,
     54>>, <<80, 55>>, <<80, 56>>, <<86, 34>>, <<89, 30>>, <<89, 31>>, <<89,
     32>>, <<89, 33>>, <<89, 34>>, <<92, 7>>, <<92, 8>>, <<92, 9>>, <<92, 26>>,
     <<92, 27>>, <<92, 28>>, <<92, 29>>, <<92, 30>>, <<92, 31>>, <<92, 32>>,
     <<92, 33>>, <<92, 34>>}

FloatAbove700 ==
    {<<37, 91>>, <<37, 92>>, <<37, 93>>, <<40, 87>>, <<40, 88>>, <<40, 89>>,
     <<40, 90>>, <<40, 91>>, <<40, 92>>, <<40, 93>>, <<43, 84>>, <<43, 85>>,
     <<43, 86>>, <<43, 87>>, <<43, 88>>, <<43, 89>>, <<43, 90>>, <<43, 91>>,
     <<43, 92>>, <<43, 93>>, <<46, 79>>, <<46, 80>>, <<46, 81>>, <<46, 84>>,
     <<46, 85>>, <<46, 86>>, <<46, 87>>, <<46, 88>>, <<46, 89>>, <<46, 90>>,
     <<46, 91>>, <<46, 92>>, <<46, 93>>, <<52, 71>>, <<52, 72>>, <<52, 73>>,
     <<52, 74>>, <<52, 90>>, <<52, 91>>, <<52, 92>>, <<52, 93>>, <<55, 67>>,
     <<55, 68>>, <<55, 69>>, <<55, 70>>, <<55, 71>>, <<55, 72>>, <<55, 73>>,
     <<55, 74>>, <<55, 86>>, <<55, 87>>, <<55, 88>>, <<55, 89>>, <<55, 90>>,
     <<55, 91>>, <<55, 92>>, <<55, 93>>, <<58, 100>>, <<61, 96>>, <<61, 98>>,
     <<61, 100>>, <<64, 55>>, <<64, 56>>, <<64, 92>>, <<64, 93>>, <<64, 94>>,
     <<64, 96>>, <<64, 98>>, <<64, 100>>, <<67, 51>>, <<67, 52>>, <<67, 53>>,
     <<67, 54>>, <<67, 55>>, <<67, 56>>, <<67, 88>>, <<67, 89>>, <<67, 90>>,
     <<67, 91>>, <<67, 92>>, <<67, 93>>, <<67, 94>>, <<67, 96>>, <<67, 98>>,
     <<67, 100>>, <<70, 84>>, <<70, 86>>, <<70, 88>>, <<70, 90>>, <<70, 92>>,
     <<73, 80>>, <<73, 84>>, <<73, 86>>, <<73, 88>>, <<73, 90>>, <<73, 92>>,
     <<76, 39>>, <<76, 40>>, <<76, 41>>, <<76, 42>>, <<76, 43>>, <<76, 44>>,
     <<76, 45>>, <<76, 46>>, <<76, 47>>, <<76, 48>>, <<76, 49>>, <<76, 50>>,
     <<76, 51>>, <<76, 52>>, <<76, 53>>, <<76, 54>>, <<76, 55>>, <<76, 56>>,
     <<76, 58>>, <<76, 59>>, <<76, 60>>, <<76, 61>>, <<76, 62>>, <<76, 63>>,
     <<76, 64>>, <<76, 65>>, <<76, 67>>, <<76, 76>>, <<76, 77>>, <<76, 78>>,
     <<76, 79>>, <<76, 80>>, <<76, 81>>, <<76, 82>>, <<76, 83>>, <<76, 84>>,
     <<76, 85>>, <<76, 86>>, <<76, 87>>, <<76, 88>>, <<76, 89>>, <<76, 90>>,
     <<76, 91>>, <<76, 92>>, <<76, 93>>, <<76, 94>>, <<76, 96>>, <<76, 98>>,
     <<76, 100>>, <<79, 28>>, <<79, 35>>, <<79, 36>>, <<79, 37>>, <<79, 38>>,
     <<79, 39>>, <<79, 40>>, <<79, 41>>, <<79, 42>>, <<79, 43>>, <<79, 44>>,
     <<79, 45>>, <<79, 46>>, <<79, 47>>, <<79, 48>>, <<79, 49>>, <<79, 50>>,
     <<79, 51>>, <<79, 52>>, <<79, 53>>, <<79, 54>>, <<79, 55>>, <<79, 56>>,
     <<79, 57>>, <<79, 58>>, <<79, 59>>, <<79, 60>>, <<79, 61>>, <<79, 63>>,
     <<79, 65>>, <<79, 67>>, <<79, 72>>, <<79, 73>>, <<79, 74>>, <<79, 75>>,
     <<79, 76>>, <<79, 77>>, <<79, 78>>, <<79, 79>>, <<79, 80>>, <<79, 81>>,
     <<79, 82>>, <<79, 83>>, <<79, 84>>, <<79, 85>>, <<79, 86>>, <<79, 87>>,
     <<79, 88>>, <<79, 89>>, <<79, 90>>, <<79, 91>>, <<79, 92>>, <<79, 93>>,
     <<79, 94>>, <<79, 96>>, <<79, 98>>, <<79, 100>>, <<82, 31>>, <<82, 32>>,
     <<82, 33>>, <<82, 34>>, <<82, 68>>, <<82, 69>>, <<82, 70>>, <<82, 71>>,
     <<82, 72>>, <<82, 73>>, <<82, 74>>, <<82, 76>>, <<82, 78>>, <<82, 80>>,
     <<82, 84>>, <<82, 86>>, <<82, 88>>, <<82, 90>>, <<82, 92>>, <<85, 27>>,
     <<85, 28>>, <<85, 29>>, <<85, 30>>, <<85, 31>>, <<85, 32>>, <<85, 33>>,
     <<85, 34>>, <<85, 46>>, <<85, 64>>, <<85, 65>>, <<85, 66>>, <<85, 67>>,
     <<85, 68>>, <<85, 69>>, <<85, 70>>, <<85, 71>>, <<85, 72>>, <<85, 73>>,
     <<85, 74>>, <<85, 76>>, <<85, 78>>, <<85, 80>>, <<85, 84>>, <<85, 86>>,
     <<85, 88>>, <<85, 90>>, <<85, 92>>, <<88, 23>>, <<88, 24>>, <<88, 25>>,
     <<88, 26>>, <<88, 27>>, <<88, 28>>, <<88, 29>>, <<88, 30>>, <<88, 31>>,
     <<88, 32>>, <<88, 33>>, <<88, 34>>, <<88, 42>>, <<88, 43>>, <<88, 44>>,
     <<88, 45>>, <<88, 46>>, <<88, 60>>, <<88, 61>>, <<88, 62>>, <<88, 63>>,
     <<88, 64>>, <<88, 65>>, <<88, 66>>, <<88, 67>>, <<88, 68>>, <<88, 69>>,
     <<88, 70>>, <<88, 71>>, <<88, 72>>, <<88, 73>>, <<88, 74>>, <<88, 76>>,
     <<88, 78>>, <<88, 80>>, <<88, 84>>, <<88, 86>>, <<88, 88>>, <<88, 90>>,
     <<88, 92>>, <<88, 98>>, <<88, 99>>, <<88, 100>>, <<91, 19>>, <<91, 20>>,
     <<91, 21>>, <<91, 22>>, <<91, 23>>, <<91, 24>>, <<91, 25>>, <<91, 26>>,
     <<91, 27>>, <<91, 28>>, <<91, 29>>, <<91, 30>>, <<91, 31>>, <<91, 32>>,
     <<91, 33>>, <<91, 34>>, <<91, 38>>, <<91, 39>>, <<91, 40>>, <<91, 41>>,
     <<91, 42>>, <<91, 43>>, <<91, 44>>, <<91, 45>>, <<91, 56>>, <<91, 57>>,
     <<91, 58>>, <<91, 59>>, <<91, 60>>, <<91, 61>>, <<91, 62>>, <<91, 63>>,
     <<91, 64>>, <<91, 65>>, <<91, 66>>, <<91, 67>>, <<91, 68>>, <<91, 69>>,
     <<91, 70>>, <<91, 71>>, <<91, 72>>, <<91, 73>>, <<91, 74>>, <<91, 76>>,
     <<91, 78>>, <<91, 80>>, <<91, 84>>, <<91, 86>>, <<91, 88>>, <<91, 90>>,
     <<91, 92>>, <<91, 94>>, <<91, 95>>, <<91, 96>>, <<91, 97>>, <<91, 98>>,
     <<91, 99>>, <<91, 100>>, <<94, 52>>, <<94, 53>>, <<94, 54>>, <<94, 55>>,
     <<94, 56>>, <<94, 58>>, <<94, 60>>, <<94, 62>>, <<94, 64>>, <<94, 66>>,
     <<94, 68>>, <<94, 90>>, <<94, 91>>, <<94, 92>>, <<94, 93>>, <<94, 95>>,
     <<94, 97>>, <<94, 99>>, <<97, 11>>, <<97, 48>>, <<97, 49>>, <<97, 50>>,
     <<97, 51>>, <<97, 52>>, <<97, 53>>, <<97, 54>>, <<97, 55>>, <<97, 56>>,
     <<97, 58>>, <<97, 60>>, <<97, 62>>, <<97, 64>>, <<97, 66>>, <<97, 68>>,
     <<97, 86>>, <<97, 87>>, <<97, 88>>, <<97, 89>>, <<97, 90>>, <<97, 91>>,
     <<97, 92>>, <<97, 93>>, <<97, 95>>, <<97, 97>>, <<97, 99>>, <<100, 7>>,
     <<100, 8>>, <<100, 9>>, <<100, 10>>, <<100, 11>>, <<100, 26>>, <<100,
     27>>, <<100, 28>>, <<100, 44>>, <<100, 45>>, <<100, 46>>, <<100, 47>>,
     <<100, 48>>, <<100, 49>>, <<100, 50>>, <<100, 51>>, <<100, 52>>, <<100,
     53>>, <<100, 54>>, <<100, 55>>, <<100, 56>>, <<100, 58>>, <<100, 60>>,
     <<100, 62>>, <<100, 64>>, <<100, 66>>, <<100, 68>>, <<100, 82>>, <<100,
     83>>, <<100, 84>>, <<100, 85>>, <<100, 86>>, <<100, 87>>, <<100, 88>>,
     <<100, 89>>, <<100, 90>>, <<100, 91>>, <<100, 92>>, <<100, 93>>, <<100,
     95>>, <<100, 97>>, <<100, 99>>}

FloatAbove(threshold) ==
    CASE threshold = 300 -> FloatAbove300
      [] threshold = 500 -> FloatAbove500
      [] threshold = 700 -> FloatAbove700

\* intensity_score > threshold, as the float comparison decides it
score_exceeds(emotion_data, threshold) ==
    LET confidence == Get(emotion_data, "confidence", 50)
        valence == Abs(Get(emotion_data, "valence", 0))
        score == intensity_score(emotion_data)
    IN  \/ score > threshold
        \/ score = threshold /\ <<confidence, valence>> \in FloatAbove(threshold)

\* a bug the scorer could have: the arousal term left out of the score
_calculate_emotional_intensity_no_arousal(emotion_data) ==
    LET confidence == Get(emotion_data, "confidence", 50)
        valence == Abs(Get(emotion_data, "valence", 0))
        score == (confidence * 4) + (valence * 3)
    IN  IF score > 700 THEN "Very High"
        ELSE IF score > 500 THEN "High"
        ELSE IF score > 300 THEN "Moderate"
        ELSE "Low"

\* a bug the scorer could have: the valence used with its sign
_calculate_emotional_intensity_signed_valence(emotion_data) ==
    LET confidence == Get(emotion_data, "confidence", 50)
        valence == Get(emotion_data, "valence", 0)
        arousal == Get(emotion_data, "arousal", 0)
        score == (confidence * 4) + (valence * 3) + (arousal * 3)
    IN  IF score > 700 THEN "Very High"
        ELSE IF score > 500 THEN "High"
        ELSE IF score > 300 THEN "Moderate"
        ELSE "Low"

_calculate_emotional_intensity(emotion_data) ==
    IF score_exceeds(emotion_data, 700) THEN "Very High"
    ELSE IF score_exceeds(emotion_data, 500) THEN "High"
    ELSE IF score_exceeds(emotion_data, 300) THEN "Moderate"
    ELSE "Low"

----------------------------------------------------------------------------
(* StateAgent._determine_response_strategy *)

\* a bug the classifier could have: a point of the high tier that matches no
\* high band is tried against the moderate bands instead of falling through
_determine_response_strategy_tier_fallthrough(emotion_data) ==
    LET valence == Get(emotion_data, "valence", 0)
        arousal == Get(emotion_data, "arousal", 0)
        confidence == Get(emotion_data, "confidence", 50)
    IN  IF confidence > 70 /\ 60 <= valence /\ valence <= 100
                           /\ 60 <= arousal /\ arousal <= 100
            THEN "HIGHLY_EXCITED_DETAILED_EXPLORATION"
        ELSE IF confidence > 70 /\ -100 <= valence /\ valence <= -60
                                /\ 60 <= arousal /\ arousal <= 100
            THEN "HIGHLY_STRESSED_URGENT_SUPPORT"
        ELSE IF confidence > 70 /\ -100 <= valence /\ valence <= -60
                                /\ 0 <= arousal /\ arousal <= 40
            THEN "HIGHLY_DEPRESSED_GENTLE_SUPPORT"
        ELSE IF confidence > 70 /\ 60 <= valence /\ valence <= 100
                                /\ 0 <= arousal /\ arousal <= 40
            THEN "HIGHLY_CONTENT_DEEP_CONVERSATION"
        ELSE IF confidence > 40 /\ 20 <= valence /\ valence <= 80
                                /\ 50 <= arousal /\ arousal <= 90
            THEN "EXCITED_DETAILED_SEARCH"
        ELSE IF confidence > 40 /\ -80 <= valence /\ valence <= -20
                                /\ 50 <= arousal /\ arousal <= 90
            THEN "STRESSED_URGENT_CLEAR"
        ELSE IF confidence > 40 /\ -80 <= valence /\ valence <= -20
                                /\ 10 <= arousal /\ arousal <= 50
            THEN "BORED_SIMPLE_CLEAR"
        ELSE IF confidence > 40 /\ 20 <= valence /\ valence <= 80
                                /\ 10 <= arousal /\ arousal <= 50
            THEN "CALM_ENGAGING_CONVERSATION"
        ELSE IF confidence > 40
            THEN "ADAPTIVE_CONTEXTUAL"
        ELSE IF -20 <= valence /\ valence <= 20 /\ 60 <= arousal /\ arousal <= 100
            THEN "UNCERTAIN_BUT_ENERGETIC_EXPLORATION"
        ELSE IF -20 <= valence /\ valence <= 20 /\ 0 <= arousal /\ arousal <= 40
            THEN "UNCERTAIN_CALM_GUIDANCE"
        ELSE "MIXED_EMOTIONS_ADAPTIVE_SUPPORT"

\* a bug the classifier could have: the low-arousal bands of the moderate
\* tier tried before the high-arousal ones
_determine_response_strategy_low_bands_first(emotion_data) ==
    LET valence == Get(emotion_data, "valence", 0)
        arousal == Get(emotion_data, "arousal", 0)
        confidence == Get(emotion_data, "confidence", 50)
    IN  IF confidence > 70 THEN
            \* HIGH CONFIDENCE EMOTIONAL STATES
            IF 60 <= valence /\ valence <= 100 /\ 60 <= arousal /\ arousal <= 100
                THEN "HIGHLY_EXCITED_DETAILED_EXPLORATION"
            ELSE IF -100 <= valence /\ valence <= -60 /\ 60 <= arousal /\ arousal <= 100
                THEN "HIGHLY_STRESSED_URGENT_SUPPORT"
            ELSE IF -100 <= valence /\ valence <= -60 /\ 0 <= arousal /\ arousal <= 40
                THEN "HIGHLY_DEPRESSED_GENTLE_SUPPORT"
            ELSE IF 60 <= valence /\ valence <= 100 /\ 0 <= arousal /\ arousal <= 40
                THEN "HIGHLY_CONTENT_DEEP_CONVERSATION"
            ELSE "ADAPTIVE_CONTEXTUAL"
        ELSE IF confidence > 40 THEN
            \* MODERATE CONFIDENCE EMOTIONAL STATES
            IF 20 <= valence /\ valence <= 80 /\ 10 <= arousal /\ arousal <= 50
                THEN "CALM_ENGAGING_CONVERSATION"
            ELSE IF -80 <= valence /\ valence <= -20 /\ 10 <= arousal /\ arousal <= 50
                THEN "BORED_SIMPLE_CLEAR"
            ELSE IF 20 <= valence /\ valence <= 80 /\ 50 <= arousal /\ arousal <= 90
                THEN "EXCITED_DETAILED_SEARCH"
            ELSE IF -80 <= valence /\ valence <= -20 /\ 50 <= arousal /\ arousal <= 90
                THEN "STRESSED_URGENT_CLEAR"
            ELSE "ADAPTIVE_CONTEXTUAL"
        ELSE
            \* LOW CONFIDENCE OR NEUTRAL STATES
            IF -20 <= valence /\ valence <= 20 /\ 60 <= arousal /\ arousal <= 100
                THEN "UNCERTAIN_BUT_ENERGETIC_EXPLORATION"
            ELSE IF -20 <= valence /\ valence <= 20 /\ 0 <= arousal /\ arousal <= 40
                THEN "UNCERTAIN_CALM_GUIDANCE"
            ELSE "MIXED_EMOTIONS_ADAPTIVE_SUPPORT"


_determine_response_strategy(emotion_data) ==
    LET valence == Get(emotion_data, "valence", 0)
        arousal == Get(emotion_data, "arousal", 0)
        confidence == Get(emotion_data, "confidence", 50)
    IN  IF confidence > 70 THEN
            \* HIGH CONFIDENCE EMOTIONAL STATES
            IF 60 <= valence /\ valence <= 100 /\ 60 <= arousal /\ arousal <= 100
                THEN "HIGHLY_EXCITED_DETAILED_EXPLORATION"
            ELSE IF -100 <= valence /\ valence <= -60 /\ 60 <= arousal /\ arousal <= 100
                THEN "HIGHLY_STRESSED_URGENT_SUPPORT"
            ELSE IF -100 <= valence /\ valence <= -60 /\ 0 <= arousal /\ arousal <= 40
                THEN "HIGHLY_DEPRESSED_GENTLE_SUPPORT"
            ELSE IF 60 <= valence /\ valence <= 100 /\ 0 <= arousal /\ arousal <= 40
                THEN "HIGHLY_CONTENT_DEEP_CONVERSATION"
            ELSE "ADAPTIVE_CONTEXTUAL"
        ELSE IF confidence > 40 THEN
            \* MODERATE CONFIDENCE EMOTIONAL STATES
            IF 20 <= valence /\ valence <= 80 /\ 50 <= arousal /\ arousal <= 90
                THEN "EXCITED_DETAILED_SEARCH"
            ELSE IF -80 <= valence /\ valence <= -20 /\ 50 <= arousal /\ arousal <= 90
                THEN "STRESSED_URGENT_CLEAR"
            ELSE IF -80 <= valence /\ valence <= -20 /\ 10 <= arousal /\ arousal <= 50
                THEN "BORED_SIMPLE_CLEAR"
            ELSE IF 20 <= valence /\ valence <= 80 /\ 10 <= arousal /\ arousal <= 50
                THEN "CALM_ENGAGING_CONVERSATION"
            ELSE "ADAPTIVE_CONTEXTUAL"
        ELSE
            \* LOW CONFIDENCE OR NEUTRAL STATES
            IF -20 <= valence /\ valence <= 20 /\ 60 <= arousal /\ arousal <= 100
                THEN "UNCERTAIN_BUT_ENERGETIC_EXPLORATION"
            ELSE IF -20 <= valence /\ valence <= 20 /\ 0 <= arousal /\ arousal <= 40
                THEN "UNCERTAIN_CALM_GUIDANCE"
            ELSE "MIXED_EMOTIONS_ADAPTIVE_SUPPORT"

----------------------------------------------------------------------------
(* StateAgent._calculate_response_temperature *)

\* a bug the modulator could have: the temperature returned without the clamp
_calculate_response_temperature_unclamped(emotion_data) ==
    LET arousal == Get(emotion_data, "arousal", 0)
        valence == Get(emotion_data, "valence", 0)
        confidence == Get(emotion_data, "confidence", 50)
        emotional_intensity == Abs(valence) + arousal
        intensity_bonus == IF emotional_intensity > 120 THEN 100
                           ELSE IF emotional_intensity < 30 THEN -100
                           ELSE 0
    IN  500 + arousal * 4 + Abs(valence) * 3 + (confidence - 50) * 4 + intensity_bonus

\* temperature in thousandths
_calculate_response_temperature(emotion_data) ==
    LET arousal == Get(emotion_data, "arousal", 0)
        valence == Get(emotion_data, "valence", 0)
        confidence == Get(emotion_data, "confidence", 50)
        base_temp == 500
        arousal_adjustment == arousal * 4
        valence_adjustment == Abs(valence) * 3
        confidence_adjustment == (confidence - 50) * 4
        emotional_intensity == Abs(valence) + arousal
        intensity_bonus == IF emotional_intensity > 120 THEN 100
                           ELSE IF emotional_intensity < 30 THEN -100
                           ELSE 0
        temperature == base_temp + arousal_adjustment + valence_adjustment
                       + confidence_adjustment + intensity_bonus
    IN  Max(200, Min(950, temperature))

----------------------------------------------------------------------------
(* Specification SpecVector: the classifiers applied to an arbitrary vector *)

\* hundredths at and next to every multiple of 0.1 and 0.05
NearTenths(lo, hi) == {x \in lo..hi : x % 10 \in {0, 1, 5, 9}}

VectorDomain ==
    [valence : NearTenths(-100, 100),
     arousal : NearTenths(0, 100),
     confidence : NearTenths(0, 100)]

NotCalled == [fn |-> "none"]

InitVector ==
    /\ args \in VectorDomain
    /\ ret = NotCalled
    /\ AgentIdle

ApplyStrategy ==
    /\ ret = NotCalled
    /\ ret' = [fn |-> "_determine_response_strategy",
               value |-> _determine_response_strategy(args)]
    /\ UNCHANGED <<args, agentVars, apiVars>>

ApplyIntensity ==
    /\ ret = NotCalled
    /\ ret' = [fn |-> "_calculate_emotional_intensity",
               value |-> _calculate_emotional_intensity(args)]
    /\ UNCHANGED <<args, agentVars, apiVars>>

ApplyTemperature ==
    /\ ret = NotCalled
    /\ ret' = [fn |-> "_calculate_response_temperature",
               value |-> _calculate_response_temperature(args)]
    /\ UNCHANGED <<args, agentVars, apiVars>>

NextVector == ApplyStrategy \/ ApplyIntensity \/ ApplyTemperature

SpecVector == InitVector /\ [][NextVector]_vars

----------------------------------------------------------------------------
(* Claims on the classifiers *)

StrategyLabels ==
    {"HIGHLY_EXCITED_DETAILED_EXPLORATION", "HIGHLY_STRESSED_URGENT_SUPPORT",
     "HIGHLY_DEPRESSED_GENTLE_SUPPORT", "HIGHLY_CONTENT_DEEP_CONVERSATION",
     "EXCITED_DETAILED_SEARCH", "STRESSED_URGENT_CLEAR", "BORED_SIMPLE_CLEAR",
     "CALM_ENGAGING_CONVERSATION", "UNCERTAIN_BUT_ENERGETIC_EXPLORATION",
     "UNCERTAIN_CALM_GUIDANCE", "MIXED_EMOTIONS_ADAPTIVE_SUPPORT",
     "ADAPTIVE_CONTEXTUAL"}

\* the bands of each confidence tier as <<valence lo, hi, arousal lo, hi>>;
\* the low tier ends with a catch-all band
TierOf(confidence) ==
    IF confidence > 70 THEN "high" ELSE IF confidence > 40 THEN "moderate" ELSE "low"

BandsOf(tier) ==
    CASE tier = "high" ->
            {<<60, 100, 60, 100>>, <<-100, -60, 60, 100>>,
             <<-100, -60, 0, 40>>, <<60, 100, 0, 40>>}
      [] tier = "moderate" ->
            {<<20, 80, 50, 90>>, <<-80, -20, 50, 90>>,
             <<-80, -20, 10, 50>>, <<20, 80, 10, 50>>}
      [] tier = "low" ->
            {<<-20, 20, 60, 100>>, <<-20, 20, 0, 40>>, <<-100, 100, 0, 100>>}

InBand(v, b) ==
    /\ b[1] <= v.valence /\ v.valence <= b[2]
    /\ b[3] <= v.arousal /\ v.arousal <= b[4]

SomeBandMatches(v) == \E b \in BandsOf(TierOf(v.confidence)) : InBand(v, b)

\* C1: _determine_response_strategy is total over the vector domain: it returns
\* one label of the fixed enumeration, and that label is ADAPTIVE_CONTEXTUAL
\* exactly when no band of the tier selected by the confidence matches.
C1_StrategyTotal ==
    ret.fn = "_determine_response_strategy" =>
        /\ ret.value \in StrategyLabels
        /\ (ret.value = "ADAPTIVE_CONTEXTUAL") <=> ~SomeBandMatches(args)

C1_Witness ==
    /\ ret.fn = "_determine_response_strategy"
    /\ ret.value = "ADAPTIVE_CONTEXTUAL"
    /\ args.confidence > 70
    /\ args.valence = 50

\* the temperature formula of the claim, clamp included, in thousandths
ClaimedTemperature(v) ==
    LET sum == Abs(v.valence) + v.arousal
        bonus == IF sum > 120 THEN 100 ELSE IF sum < 30 THEN -100 ELSE 0
        t == 500 + 4 * v.arousal + 3 * Abs(v.valence) + 4 * (v.confidence - 50) + bonus
    IN  IF t < 200 THEN 200 ELSE IF t > 950 THEN 950 ELSE t

----------------------------------------------------------------------------
(* Specification SpecMonotone: the intensity of a vector and of the same    *)
(* vector with one of its fields raised                                     *)

Multiples(step, lo, hi) == {x \in lo..hi : x % step = 0}

MonotoneDomain ==
    [valence : Multiples(10, -100, 100),
     arousal : Multiples(10, 0, 100),
     confidence : Multiples(5, 0, 100)]

\* a field and a value for it that is higher than the vector's: for the
\* valence, higher in magnitude
Raises(emotion_data) ==
    {r \in [field : {"confidence", "arousal"}, value : Multiples(5, 0, 100)] :
        r.value > emotion_data[r.field]}
    \cup {r \in [field : {"valence"}, value : Multiples(10, -100, 100)] :
        Abs(r.value) > Abs(emotion_data.valence)}

InitMonotone ==
    /\ \E emotion_data \in MonotoneDomain :
           \E raise \in Raises(emotion_data) :
               args = [emotion_data |-> emotion_data, raise |-> raise]
    /\ ret = NotCalled
    /\ AgentIdle

ApplyIntensityRaised ==
    /\ ret = NotCalled
    /\ ret' = [fn |-> "_calculate_emotional_intensity",
               value |-> _calculate_emotional_intensity(args.emotion_data),
               raised |-> _calculate_emotional_intensity(
                              [args.emotion_data EXCEPT
                                  ![args.raise.field] = args.raise.value])]
    /\ UNCHANGED <<args, agentVars, apiVars>>

NextMonotone == ApplyIntensityRaised

SpecMonotone == InitMonotone /\ [][NextMonotone]_vars

TierRank(tier) ==
    CASE tier = "Low" -> 0
      [] tier = "Moderate" -> 1
      [] tier = "High" -> 2
      [] tier = "Very High" -> 3

\* C20: _calculate_emotional_intensity is monotonic: with the tiers ordered
\* Low < Moderate < High < Very High, raising one of confidence, |valence| or
\* arousal while the other two stay fixed never lowers the returned tier.
C20_IntensityMonotonic ==
    (ret.fn = "_calculate_emotional_intensity" /\ "raised" \in DOMAIN ret) =>
        TierRank(ret.raised) >= TierRank(ret.value)

\* a negative valence raised in magnitude across the 0.7 threshold (the sum
\* 0.4*1.0 + 0.3*0.5 + 0.3*0.5 is above 0.7 in floats)
C20_Witness ==
    /\ ret.fn = "_calculate_emotional_intensity" /\ "raised" \in DOMAIN ret
    /\ args.emotion_data = [valence |-> -40, arousal |-> 50, confidence |-> 100]
    /\ args.raise = [field |-> "valence", value |-> -50]
    /\ ret.value = "High"
    /\ ret.raised = "Very High"

----------------------------------------------------------------------------
(* Specification SpecMap: map_sentiment_to_emotion applied to a sentiment    *)
(* result, and the classifiers applied to the vector it returns             *)

ScoreClasses == {"Positive", "Negative", "Neutral", "Mixed"}

\* scores in thousandths: the values of the documented scenarios and of the
\* fallback distribution, and values that are no multiple of 0.01
ScoreGrid == {0, 20, 30, 50, 250, 500, 845, 850, 900, 1000}

\* every non-empty score map over the classes
ScoreMaps ==
    UNION {[D -> ScoreGrid] : D \in (SUBSET ScoreClasses) \ {{}}}

\* the labels of the sentiment service and one label the table does not hold
SentimentInputs == SentimentLabels \cup {"UNRECOGNIZED"}

InitMap ==
    /\ args \in [sentiment : SentimentInputs, scores : ScoreMaps]
    /\ ret = NotCalled
    /\ AgentIdle

ApplyMap ==
    /\ ret = NotCalled
    /\ ret' = [fn |-> "map_sentiment_to_emotion",
               value |-> map_sentiment_to_emotion(args.sentiment, args.scores)]
    /\ UNCHANGED <<args, agentVars, apiVars>>

StrategyOfMapped ==
    /\ ret.fn = "map_sentiment_to_emotion"
    /\ ret' = [fn |-> "_determine_response_strategy",
               vector |-> ret.value,
               value |-> _determine_response_strategy(ret.value)]
    /\ UNCHANGED <<args, agentVars, apiVars>>

IntensityOfMapped ==
    /\ ret.fn = "map_sentiment_to_emotion"
    /\ ret' = [fn |-> "_calculate_emotional_intensity",
               vector |-> ret.value,
               value |-> _calculate_emotional_intensity(ret.value)]
    /\ UNCHANGED <<args, agentVars, apiVars>>

NextMap == ApplyMap \/ StrategyOfMapped \/ IntensityOfMapped

SpecMap == InitMap /\ [][NextMap]_vars

----------------------------------------------------------------------------
(* Claims on the mapper *)

ScenarioA ==
    [sentiment |-> "POSITIVE",
     scores |-> [Positive |-> 900, Negative |-> 20, Neutral |-> 50, Mixed |-> 30]]

ScenarioB ==
    [sentiment |-> "NEGATIVE",
     scores |-> [Positive |-> 50, Negative |-> 850, Neutral |-> 50, Mixed |-> 50]]

\* C2 as stated: the vector of scenario B (valence -0.68, arousal 0.59 or 0.60,
\* confidence 0.85) is classified STRESSED_URGENT_CLEAR.
C2_Original ==
    (args = ScenarioB /\ ret.fn = "_determine_response_strategy") =>
        /\ ret.vector.valence = -68
        /\ ret.vector.arousal \in {59, 60}
        /\ ret.vector.confidence = 85
        /\ ret.value = "STRESSED_URGENT_CLEAR"

\* C2 amended: the vector of scenario B is valence -0.68, arousal 0.59,
\* confidence 0.85; confidence 0.85 selects the high tier, whose bands leave
\* arousal 0.59 out, so the strategy is ADAPTIVE_CONTEXTUAL.
C2_ScenarioB ==
    (args = ScenarioB /\ ret.fn = "_determine_response_strategy") =>
        /\ ret.vector.valence = -68
        /\ ret.vector.arousal = 59
        /\ ret.vector.confidence = 85
        /\ ret.value = "ADAPTIVE_CONTEXTUAL"

C2_Witness == args = ScenarioB /\ ret.fn = "_determine_response_strategy"

\* C3 as stated: scenario A maps to confidence 0.9, valence 0.72, arousal 0.54
\* and its intensity tier is "High".
C3_Original ==
    (args = ScenarioA /\ ret.fn = "_calculate_emotional_intensity") =>
        /\ ret.vector.confidence = 90
        /\ ret.vector.valence = 72
        /\ ret.vector.arousal = 54
        /\ ret.value = "High"

\* C3 amended: scenario A maps to confidence 0.9, valence 0.72, arousal 0.54;
\* the intensity score is 0.738 > 0.7 and the tier is "Very High".
C3_ScenarioA ==
    (args = ScenarioA /\ ret.fn = "_calculate_emotional_intensity") =>
        /\ ret.vector.confidence = 90
        /\ ret.vector.valence = 72
        /\ ret.vector.arousal = 54
        /\ intensity_score(ret.vector) = 738
        /\ ret.value = "Very High"

C3_Witness == args = ScenarioA /\ ret.fn = "_calculate_emotional_intensity"

\* the table entry the claim names for a label: the label's own entry, the
\* NEUTRAL entry for a label outside the four
ClaimedEntry(label) ==
    IF label \in {"POSITIVE", "NEGATIVE", "NEUTRAL", "MIXED"}
    THEN emotion_mapping[label]
    ELSE emotion_mapping["NEUTRAL"]

\* C7: for every label L and non-empty score map S, map_sentiment_to_emotion
\* returns confidence = max(S), valence = baseValence(L) * max(S) and arousal =
\* baseArousal(L) * max(S), each within the rounding to 2 decimals (half a
\* hundredth), and a label outside the four uses the NEUTRAL entry's base
\* values, label and template.
C7_MapperContract ==
    ret.fn = "map_sentiment_to_emotion" =>
        LET m == SetMax({args.scores[k] : k \in DOMAIN args.scores})
            e == ClaimedEntry(args.sentiment)
        IN  /\ Abs(10 * ret.value.confidence - m) <= 5
            /\ Abs(100 * ret.value.valence - e.valence * m) <= 50
            /\ Abs(100 * ret.value.arousal - e.arousal * m) <= 50
            /\ ret.value.emotion = e.emotion
            /\ ret.value.response_template = e.response_template
            /\ \A k \in DOMAIN args.scores : args.scores[k] <= m

\* an unrecognized label with a maximum score that is no multiple of 0.01
C7_Witness ==
    /\ ret.fn = "map_sentiment_to_emotion"
    /\ args.sentiment = "UNRECOGNIZED"
    /\ args.scores = [Positive |-> 845, Mixed |-> 30]
    /\ ret.value.confidence = 84
    /\ ret.value.arousal = 17
    /\ ret.value.emotion = "Calm / Indifference / Contemplative"

----------------------------------------------------------------------------
(* Texts.  A text is a sequence of tokens: a token is one whitespace        *)
(* character, one special character (one the filter of preprocess_text      *)
(* removes), one punctuation character the filter keeps, or one whole word  *)
(* in a given letter case.  A marker lying inside a longer word is not      *)
(* modelled.                                                                *)

WhitespaceTokens == {" ", "\t"}

SpecialTokens == {"@"}

IsSpace(t) == t \in WhitespaceTokens

\* str.lower() on one token
LowerToken(t) ==
    CASE t = "I" -> "i"
      [] t = "HATE" -> "hate"
      [] t = "Hate" -> "hate"
      [] t = "WANT" -> "want"
      [] t = "Want" -> "want"
      [] t = "OK" -> "ok"
      [] OTHER -> t

\* text.lower()
Lower(text) == [i \in 1..Len(text) |-> LowerToken(text[i])]

\* text.strip(): leading and trailing whitespace removed
RECURSIVE LStrip(_)
LStrip(text) ==
    IF text = <<>> THEN <<>>
    ELSE IF IsSpace(Head(text)) THEN LStrip(Tail(text))
    ELSE text

RECURSIVE RStrip(_)
RStrip(text) ==
    IF text = <<>> THEN <<>>
    ELSE IF IsSpace(text[Len(text)]) THEN RStrip(SubSeq(text, 1, Len(text) - 1))
    ELSE text

Strip(text) == RStrip(LStrip(text))

\* re.sub(r'\s+', ' ', text): every run of whitespace becomes one space
RECURSIVE CollapseWhitespace(_)
CollapseWhitespace(text) ==
    IF text = <<>> THEN <<>>
    ELSE IF IsSpace(Head(text))
         THEN <<" ">> \o CollapseWhitespace(LStrip(Tail(text)))
         ELSE <<Head(text)>> \o CollapseWhitespace(Tail(text))

\* re.sub(r'[^\w\s.,!?;:\'-]', '', text): the special characters removed
RemoveSpecial(text) == SelectSeq(text, LAMBDA t : t \notin SpecialTokens)

\* a bug preprocess_text could have: no special character is removed
preprocess_text_keep_special(text) ==
    IF text = <<>> \/ Strip(text) = <<>> THEN <<>>
    ELSE CollapseWhitespace(Strip(text))

(* StateAgent.preprocess_text *)
preprocess_text(text) ==
    IF text = <<>> \/ Strip(text) = <<>> THEN <<>>
    ELSE RemoveSpecial(CollapseWhitespace(Strip(text)))

\* Python's `indicator in text`: the indicator is a contiguous part of the text
Contains(text, indicator) ==
    \E i \in 1..(Len(text) - Len(indicator) + 1) :
        SubSeq(text, i, i + Len(indicator) - 1) = indicator

----------------------------------------------------------------------------
(* StateAgent._detect_feedback_and_adjust_strategy *)

feedback_indicators ==
    {<<"didn't", " ", "like">>, <<"don't", " ", "like">>, <<"hate">>,
     <<"terrible">>, <<"awful">>, <<"bad">>,
     <<"make", " ", "it", " ", "shorter">>, <<"make", " ", "it", " ", "better">>,
     <<"too", " ", "long">>, <<"too", " ", "short">>,
     <<"not", " ", "helpful">>, <<"useless">>,
     <<"waste", " ", "of", " ", "time">>, <<"stupid">>,
     <<"give", " ", "me">>, <<"I", " ", "want">>, <<"I", " ", "need">>,
     <<"show", " ", "me">>, <<"tell", " ", "me">>}

is_feedback(text) ==
    LET text_lower == Lower(text)
    IN  \E indicator \in feedback_indicators : Contains(text_lower, indicator)

\* a bug the detector could have: the confidence set to 0.7 instead of raised
\* to at least 0.7
_detect_feedback_and_adjust_strategy_sets_confidence(text, emotion_data) ==
    IF is_feedback(text)
    THEN [feedback_detected |-> TRUE,
          response_priority |-> "SOLVE_PROBLEM",
          arousal |-> Min(100, Get(emotion_data, "arousal", 50) + 20),
          confidence |-> 70] @@ emotion_data
    ELSE emotion_data

\* a bug the detector could have: the raised arousal not clamped to 1.0
_detect_feedback_and_adjust_strategy_unclamped(text, emotion_data) ==
    IF is_feedback(text)
    THEN [feedback_detected |-> TRUE,
          response_priority |-> "SOLVE_PROBLEM",
          arousal |-> Get(emotion_data, "arousal", 50) + 20,
          confidence |-> Max(70, Get(emotion_data, "confidence", 50))] @@ emotion_data
    ELSE emotion_data

\* a bug the detector could have: the arousal lowered by 0.2 on feedback
_detect_feedback_and_adjust_strategy_lowers_arousal(text, emotion_data) ==
    IF is_feedback(text)
    THEN [feedback_detected |-> TRUE,
          response_priority |-> "SOLVE_PROBLEM",
          arousal |-> Max(0, Get(emotion_data, "arousal", 50) - 20),
          confidence |-> Max(70, Get(emotion_data, "confidence", 50))] @@ emotion_data
    ELSE emotion_data

\* the keys assigned by the branch replace or extend those of emotion_data
_detect_feedback_and_adjust_strategy(text, emotion_data) ==
    IF is_feedback(text)
    THEN [feedback_detected |-> TRUE,
          response_priority |-> "SOLVE_PROBLEM",
          arousal |-> Min(100, Get(emotion_data, "arousal", 50) + 20),
          confidence |-> Max(70, Get(emotion_data, "confidence", 50))] @@ emotion_data
    ELSE emotion_data

----------------------------------------------------------------------------
(* Specification SpecFeedback: the feedback detector applied once, and then  *)
(* again to its own result, for an arbitrary text and vector                *)

MaxTextLen == 3

TextTokens == {" ", "@", "hate", "HATE", "I", "want", "ok"}

SeqsUpTo(S, n) == UNION {[1..k -> S] : k \in 0..n}

Texts == SeqsUpTo(TextTokens, MaxTextLen)

\* arousal around the clamp at 1.0, confidence around the floor at 0.7
FeedbackVectors ==
    [valence : {-100, 55},
     arousal : {0, 30, 50, 79, 80, 81, 85, 90, 100},
     confidence : {0, 30, 50, 69, 70, 71, 90, 100}]

InitFeedback ==
    /\ args \in [text : Texts, emotion_data : FeedbackVectors]
    /\ ret = NotCalled
    /\ AgentIdle

ApplyFeedback ==
    /\ ret = NotCalled
    /\ ret' = [fn |-> "_detect_feedback_and_adjust_strategy",
               times |-> 1,
               value |-> _detect_feedback_and_adjust_strategy(args.text, args.emotion_data)]
    /\ UNCHANGED <<args, agentVars, apiVars>>

ApplyFeedbackAgain ==
    /\ ret.fn = "_detect_feedback_and_adjust_strategy"
    /\ ret.times = 1
    /\ ret' = [fn |-> "_detect_feedback_and_adjust_strategy",
               times |-> 2,
               once |-> ret.value,
               value |-> _detect_feedback_and_adjust_strategy(args.text, ret.value)]
    /\ UNCHANGED <<args, agentVars, apiVars>>

NextFeedback == ApplyFeedback \/ ApplyFeedbackAgain

SpecFeedback == InitFeedback /\ [][NextFeedback]_vars

----------------------------------------------------------------------------
(* Claims on the feedback detector *)

Flag(v) == Get(v, "feedback_detected", FALSE)

Priority(v) == Get(v, "response_priority", "none")

Twice == ret.fn = "_detect_feedback_and_adjust_strategy" /\ ret.times = 2

\* C4 as stated: applying the detector twice with the same text gives the same
\* arousal, confidence, feedback flag and priority tag as applying it once.
C4_Original ==
    Twice =>
        /\ ret.value.arousal = ret.once.arousal
        /\ ret.value.confidence = ret.once.confidence
        /\ Flag(ret.value) = Flag(ret.once)
        /\ Priority(ret.value) = Priority(ret.once)

\* C4 amended: applying the detector twice gives the same confidence, feedback
\* flag and priority tag as applying it once, and the same valence; the arousal
\* is the same only when no marker matches or the arousal has reached 1.0:
\* when a marker matches, the second application raises the arousal by a
\* further 0.2, clamped to 1.0.
C4_IdempotentButArousal ==
    Twice =>
        /\ ret.value.confidence = ret.once.confidence
        /\ Flag(ret.value) = Flag(ret.once)
        /\ Priority(ret.value) = Priority(ret.once)
        /\ ret.value.valence = ret.once.valence
        /\ Flag(ret.once) =>
              ret.value.arousal =
                  IF ret.once.arousal + 20 > 100 THEN 100 ELSE ret.once.arousal + 20
        /\ ~Flag(ret.once) => ret.value = ret.once
        /\ (ret.value.arousal = ret.once.arousal) <=>
              (~Flag(ret.once) \/ ret.once.arousal = 100)

\* a matching text whose vector is raised a second time
C4_Witness ==
    /\ Twice
    /\ Flag(ret.once)
    /\ ret.once.arousal = 50
    /\ ret.value.arousal = 70

\* C5: the detector never decreases arousal or confidence: the output arousal
\* is at least the input arousal and at most 1.0, the output confidence is at
\* least the input confidence, the valence is unchanged, and a text matching
\* no marker leaves the vector unchanged.
C5_OnlyEscalates ==
    (ret.fn = "_detect_feedback_and_adjust_strategy" /\ ret.times = 1) =>
        /\ ret.value.arousal >= args.emotion_data.arousal
        /\ ret.value.arousal <= 100
        /\ ret.value.confidence >= args.emotion_data.confidence
        /\ ret.value.valence = args.emotion_data.valence
        /\ ~is_feedback(args.text) => ret.value = args.emotion_data

\* a matching text (in upper case) on a vector above the confidence floor and
\* next to the arousal clamp
C5_Witness ==
    /\ ret.fn = "_detect_feedback_and_adjust_strategy" /\ ret.times = 1
    /\ args.text = <<"I", " ", "HATE">>
    /\ args.emotion_data.confidence = 90
    /\ args.emotion_data.arousal = 85
    /\ ret.value.arousal = 100
    /\ ret.value.confidence = 90
    /\ Flag(ret.value)

----------------------------------------------------------------------------
(* StateAgent._analyze_conversation_emotional_patterns *)

None == [none |-> TRUE]

RECURSIVE SeqSum(_)
SeqSum(s) == IF s = <<>> THEN 0 ELSE Head(s) + SeqSum(Tail(s))

\* a bug the analyzer could have: only the last 10 exchanges looked at
emotional_data_of_last_ten(conversation_history) ==
    LET n == Len(conversation_history)
        recent == IF n > 10 THEN SubSeq(conversation_history, n - 9, n)
                  ELSE conversation_history
        kept == SelectSeq(recent,
                    LAMBDA exchange : /\ "emotion" \in DOMAIN exchange
                                      /\ "valence" \in DOMAIN exchange
                                      /\ "arousal" \in DOMAIN exchange)
    IN  [i \in 1..Len(kept) |->
            [emotion |-> kept[i].emotion,
             valence |-> Get(kept[i], "valence", 0),
             arousal |-> Get(kept[i], "arousal", 0),
             confidence |-> Get(kept[i], "confidence", 50)]]

\* the exchanges the analyzer keeps, in order
emotional_data_of(conversation_history) ==
    LET kept == SelectSeq(conversation_history,
                    LAMBDA exchange : /\ "emotion" \in DOMAIN exchange
                                      /\ "valence" \in DOMAIN exchange
                                      /\ "arousal" \in DOMAIN exchange)
    IN  [i \in 1..Len(kept) |->
            [emotion |-> kept[i].emotion,
             valence |-> Get(kept[i], "valence", 0),
             arousal |-> Get(kept[i], "arousal", 0),
             confidence |-> Get(kept[i], "confidence", 50)]]

\* The float means differ from the exact ones only where the exact difference
\* is 0.2: the valence lists (hundredths) with values in {0.5, 0.7, 0.9} and 4
\* to 6 entries for which lines 488-490 compute second_half_valence >
\* first_half_valence + 0.2 although the difference of the means is exactly
\* 0.2 (0.7 + 0.2 is 0.8999999999999999), and those for which lines 488-492
\* compute second_half_valence < first_half_valence - 0.2
FloatImproving ==
    {<<50, 90, 90, 90>>, <<70, 70, 90, 90>>, <<90, 50, 90, 90>>,
     <<50, 50, 50, 70, 90>>, <<50, 50, 70, 50, 90>>, <<50, 50, 70, 90, 50>>,
     <<50, 50, 90, 70, 50>>, <<50, 90, 90, 90, 90>>, <<70, 70, 90, 90, 90>>,
     <<90, 50, 90, 90, 90>>, <<50, 50, 50, 50, 70, 90>>,
     <<50, 50, 50, 70, 50, 90>>, <<50, 50, 50, 70, 90, 50>>,
     <<50, 50, 50, 90, 70, 50>>, <<50, 50, 90, 70, 90, 90>>,
     <<50, 50, 90, 90, 70, 90>>, <<50, 50, 90, 90, 90, 70>>,
     <<50, 70, 70, 70, 90, 90>>, <<50, 70, 70, 90, 70, 90>>,
     <<50, 70, 70, 90, 90, 70>>, <<50, 90, 50, 70, 90, 90>>,
     <<50, 90, 50, 90, 70, 90>>, <<50, 90, 50, 90, 90, 70>>,
     <<50, 90, 70, 90, 90, 90>>, <<70, 50, 70, 70, 90, 90>>,
     <<70, 50, 70, 90, 70, 90>>, <<70, 50, 70, 90, 90, 70>>,
     <<70, 70, 50, 70, 90, 90>>, <<70, 70, 50, 90, 70, 90>>,
     <<70, 70, 50, 90, 90, 70>>, <<70, 70, 70, 90, 90, 90>>,
     <<90, 50, 50, 70, 90, 90>>, <<90, 50, 50, 90, 70, 90>>,
     <<90, 50, 50, 90, 90, 70>>, <<90, 50, 70, 90, 90, 90>>}

FloatDeclining ==
    {<<70, 90, 50, 70>>, <<70, 90, 70, 50>>, <<90, 70, 50, 70>>,
     <<90, 70, 70, 50>>, <<90, 90, 50, 90, 70>>, <<90, 90, 70, 70, 70>>,
     <<90, 90, 90, 50, 70>>, <<90, 90, 90, 50, 90, 70>>,
     <<90, 90, 90, 70, 70, 70>>, <<90, 90, 90, 90, 50, 70>>}

\* the means of the two halves of the kept valences (hundredths), compared as
\* the floats compare: as exact fractions, but for the lists of the two tables
compare_halves(valences) ==
    LET mid_point == Len(valences) \div 2
        rest == Len(valences) - mid_point
        first_sum == SeqSum(SubSeq(valences, 1, mid_point))
        second_sum == SeqSum(SubSeq(valences, mid_point + 1, Len(valences)))
    IN  \* second_sum / rest > first_sum / mid_point + 0.2
        IF \/ second_sum * mid_point > first_sum * rest + 20 * mid_point * rest
           \/ valences \in FloatImproving
            THEN "Improving Emotional State"
        ELSE IF \/ second_sum * mid_point < first_sum * rest - 20 * mid_point * rest
                \/ valences \in FloatDeclining
            THEN "Declining Emotional State"
        ELSE "Stable Emotional State"

\* a bug the analyzer could have: the trend computed from 3 exchanges on
trend_of_from_three(valences) ==
    IF Len(valences) >= 3 THEN compare_halves(valences)
    ELSE "Insufficient Data for Trend Analysis"

trend_of(valences) ==
    IF Len(valences) >= 4 THEN compare_halves(valences)
    ELSE "Insufficient Data for Trend Analysis"

\* the averages are kept as <<sum, count>>
_analyze_conversation_emotional_patterns(conversation_history) ==
    IF conversation_history = <<>> THEN None
    ELSE LET emotional_data == emotional_data_of(conversation_history)
             n == Len(emotional_data)
             valences == [i \in 1..n |-> emotional_data[i].valence]
             arousals == [i \in 1..n |-> emotional_data[i].arousal]
             confidences == [i \in 1..n |-> emotional_data[i].confidence]
             sum_valence == SeqSum(valences)
             sum_arousal == SeqSum(arousals)
             pattern ==
                 IF sum_valence > 30 * n /\ sum_arousal > 50 * n
                     THEN "Consistently Positive and Energetic"
                 ELSE IF sum_valence > 30 * n /\ sum_arousal <= 50 * n
                     THEN "Consistently Positive and Calm"
                 ELSE IF sum_valence < -30 * n /\ sum_arousal > 50 * n
                     THEN "Consistently Negative and Stressed"
                 ELSE IF sum_valence < -30 * n /\ sum_arousal <= 50 * n
                     THEN "Consistently Negative and Low Energy"
                 ELSE "Mixed Emotional States"
         IN  IF n = 0 THEN None
             ELSE [pattern |-> pattern,
                   trend |-> trend_of(valences),
                   avg_valence |-> <<sum_valence, n>>,
                   avg_arousal |-> <<sum_arousal, n>>,
                   avg_confidence |-> <<SeqSum(confidences), n>>,
                   total_exchanges |-> n]

----------------------------------------------------------------------------
(* Specification SpecTrend: the analyzer applied to an arbitrary history *)

MaxHistory == 5

Annotated(v, a, c) ==
    [user |-> <<"ok">>, assistant |-> <<"ok">>, emotion |-> "e",
     valence |-> v, arousal |-> a, confidence |-> c]

\* exchanges carrying all, none or part of the annotations
\* the annotations are multiples of 0.25, which floats add and halve exactly
Exchanges ==
    {Annotated(-50, 75, 75), Annotated(-25, 25, 50),
     Annotated(25, 25, 50), Annotated(50, 75, 75),
     [user |-> <<"ok">>, assistant |-> <<"ok">>],
     [user |-> <<"ok">>, assistant |-> <<"ok">>,
      valence |-> 50, arousal |-> 75, confidence |-> 75],
     [user |-> <<"ok">>, assistant |-> <<"ok">>, emotion |-> "e",
      valence |-> 50, arousal |-> 75]}

Histories == SeqsUpTo(Exchanges, MaxHistory)

InitTrend ==
    /\ args \in [conversation_history : Histories]
    /\ ret = NotCalled
    /\ AgentIdle

ApplyTrend ==
    /\ ret = NotCalled
    /\ ret' = [fn |-> "_analyze_conversation_emotional_patterns",
               value |-> _analyze_conversation_emotional_patterns(args.conversation_history)]
    /\ UNCHANGED <<args, agentVars, apiVars>>

NextTrend == ApplyTrend

SpecTrend == InitTrend /\ [][NextTrend]_vars

----------------------------------------------------------------------------
(* Specification SpecHalves: the analyzer applied to histories of annotated *)
(* exchanges whose valences are 0.5, 0.7 and 0.9, at and around a           *)
(* difference of 0.2 between the means of the halves                        *)

MaxEdgeHistory == 5

EdgeValences == {50, 70, 90}

EdgeHistories ==
    UNION {[1..n -> {Annotated(v, 50, 50) : v \in EdgeValences}] :
              n \in 4..MaxEdgeHistory}

InitHalves ==
    /\ args \in [conversation_history : EdgeHistories]
    /\ ret = NotCalled
    /\ AgentIdle

ApplyHalves ==
    /\ ret = NotCalled
    /\ ret' = [fn |-> "_analyze_conversation_emotional_patterns",
               value |-> _analyze_conversation_emotional_patterns(args.conversation_history)]
    /\ UNCHANGED <<args, agentVars, apiVars>>

NextHalves == ApplyHalves

SpecHalves == InitHalves /\ [][NextHalves]_vars

----------------------------------------------------------------------------
(* Claims on the analyzer *)

\* the number of exchanges of a history the analyzer's filter keeps (those
\* with an emotion label, a valence and an arousal)
RECURSIVE AnnotatedCount(_)
AnnotatedCount(h) ==
    IF h = <<>> THEN 0
    ELSE (IF {"emotion", "valence", "arousal"} \subseteq DOMAIN Head(h) THEN 1 ELSE 0)
         + AnnotatedCount(Tail(h))

----------------------------------------------------------------------------
(* StateAgent.process_text and the functions it calls on the way            *)

\* the prompt text built by _enhance_text_with_context, as its parts: the
\* summary lines (only with a summary), the last 10 exchanges, the message
_enhance_text_with_context(text, conversation_history) ==
    IF conversation_history = <<>> THEN [message |-> text]
    ELSE LET emotional_context ==
                 _analyze_conversation_emotional_patterns(conversation_history)
             n == Len(conversation_history)
             context_exchanges ==
                 IF n > 10 THEN SubSeq(conversation_history, n - 9, n)
                 ELSE conversation_history
         IN  [emotional_context |->
                 IF emotional_context = None THEN None
                 ELSE [pattern |-> emotional_context.pattern,
                       trend |-> emotional_context.trend,
                       avg_valence |-> emotional_context.avg_valence,
                       avg_arousal |-> emotional_context.avg_arousal],
              context_exchanges |-> context_exchanges,
              message |-> text]

\* 'feeling', 'feel', 'emotion' or 'emotional' occurs in text.lower(): in the
\* message, or in the headings "CONVERSATION EMOTIONAL PATTERN" and
\* "[Emotional Context: ...]" of the enhanced text
feeling_words == {"feeling", "feel", "emotion", "emotional"}

has_feeling_word(text) ==
    \/ \E i \in 1..Len(text.message) : LowerToken(text.message[i]) \in feeling_words
    \/ /\ "emotional_context" \in DOMAIN text
       /\ \/ text.emotional_context # None
          \/ \E i \in 1..Len(text.context_exchanges) :
                 LET exchange == text.context_exchanges[i]
                 IN  /\ {"user", "assistant"} \subseteq DOMAIN exchange
                     /\ \/ "emotion" \in DOMAIN exchange
                        \/ \E j \in 1..Len(exchange.user) :
                               LowerToken(exchange.user[j]) \in feeling_words
                        \/ \E j \in 1..Len(exchange.assistant) :
                               LowerToken(exchange.assistant[j]) \in feeling_words

\* the text rephrase_with_chatgpt returns when the completion call raised
rephrase_fallback(text) ==
    IF has_feeling_word(text) THEN text
    ELSE [prefix |-> "I'm feeling"] @@ [text EXCEPT !.message = Lower(text.message)]

\* a bug the fallback could have: the uniform distribution
sentiment_fallback_uniform ==
    [Sentiment |-> "NEUTRAL",
     SentimentScore |->
        [Positive |-> 250, Negative |-> 250, Neutral |-> 250, Mixed |-> 250]]

\* the NEUTRAL distribution analyze_sentiment returns when the call raised
sentiment_fallback ==
    [Sentiment |-> "NEUTRAL",
     SentimentScore |->
        [Positive |-> 250, Negative |-> 250, Neutral |-> 500, Mixed |-> 0]]

\* a bug the nudge could have: the directions of the two trends exchanged
apply_trend_nudge_swapped(emotion_data, emotional_trends) ==
    LET tagged == [conversation_trend |-> emotional_trends.trend,
                   conversation_pattern |-> emotional_trends.pattern] @@ emotion_data
    IN  IF emotional_trends.trend = "Improving Emotional State"
            THEN [tagged EXCEPT !.valence = Max(-100, emotion_data.valence - 10)]
        ELSE IF emotional_trends.trend = "Declining Emotional State"
            THEN [tagged EXCEPT !.valence = Min(100, emotion_data.valence + 10)]
        ELSE tagged

\* process_text, "Adjust current emotion based on conversation trends"
apply_trend_nudge(emotion_data, emotional_trends) ==
    LET tagged == [conversation_trend |-> emotional_trends.trend,
                   conversation_pattern |-> emotional_trends.pattern] @@ emotion_data
    IN  IF emotional_trends.trend = "Improving Emotional State"
            THEN [tagged EXCEPT !.valence = Min(100, emotion_data.valence + 10)]
        ELSE IF emotional_trends.trend = "Declining Emotional State"
            THEN [tagged EXCEPT !.valence = Max(-100, emotion_data.valence - 10)]
        ELSE tagged

(* StateAgent.generate_adaptive_response: the template and the clauses      *)
(* appended to it.  An optional text is the empty text when it is None:     *)
(* the code tests it for truth only.                                        *)
generate_adaptive_response(emotion_data, context) ==
    LET base_response == Get(emotion_data, "response_template", "Thank you for sharing.")
    IN  [template |-> base_response,
         clauses |->
            IF context # <<>>
            THEN IF emotion_data.valence > 50
                     THEN <<[clause |-> "I can see ... is important to you.",
                             about |-> context]>>
                 ELSE IF emotion_data.valence < -50
                     THEN <<[clause |-> "It sounds like ... is really challenging for you.",
                             about |-> context]>>
                 ELSE <<>>
            ELSE <<>>]

\* the except branch of generate_conversational_response_with_chatgpt
generation_fallback(emotion_data, conversation_history) ==
    LET fallback_response == generate_adaptive_response(emotion_data, <<>>)
        recent_context ==
            IF conversation_history # <<>>
            THEN Get(conversation_history[Len(conversation_history)], "user", <<>>)
            ELSE <<>>
    IN  IF recent_context # <<>>
        THEN [fallback_response EXCEPT !.clauses =
                 @ \o <<[clause |-> "I understand you mentioned '...' earlier.",
                         about |-> recent_context]>>]
        ELSE fallback_response

\* The valence as the classifier compares it after the trend nudge.  The
\* nudge adds or subtracts 0.1 in floating point (lines 879-882): 0.3 - 0.1 is
\* 0.19999999999999998 and -0.3 + 0.1 is -0.19999999999999998, which lie on
\* the side of the band edge at 0.2 where 0.19 lies; every other nudged value
\* lies where its hundredth lies.
compared_valence(emotion_data) ==
    LET valence == Get(emotion_data, "valence", 0)
        trend == Get(emotion_data, "conversation_trend", "absent")
    IN  IF valence = 20 /\ trend = "Declining Emotional State" THEN 19
        ELSE IF valence = -20 /\ trend = "Improving Emotional State" THEN -19
        ELSE valence

\* _determine_response_strategy on the vector process_text has adjusted
classify(emotion_data) ==
    _determine_response_strategy(
        [valence |-> compared_valence(emotion_data)] @@ emotion_data)

\* process_text lines 861-882: the mapped vector, adjusted by feedback
\* detection on the cleaned text and by the trend nudge
adjusted_vector(sentiment, scores, text, conversation_history) ==
    LET mapped == [sentiment_scores |-> scores, sentiment |-> sentiment]
                      @@ map_sentiment_to_emotion(sentiment, scores)
        checked == _detect_feedback_and_adjust_strategy(preprocess_text(text), mapped)
        emotional_trends ==
            IF conversation_history # <<>>
            THEN _analyze_conversation_emotional_patterns(conversation_history)
            ELSE None
    IN  IF emotional_trends # None
        THEN apply_trend_nudge(checked, emotional_trends)
        ELSE checked

\* the strategy, intensity and temperature computed ahead of the completion
\* call, feedback overriding the first two
strategy_and_params(emotion_data) ==
    LET feedback == Get(emotion_data, "feedback_detected", FALSE)
    IN  [emotional_intensity |->
            IF feedback THEN "High" ELSE _calculate_emotional_intensity(emotion_data),
         response_strategy |->
            IF feedback THEN "FEEDBACK_PROBLEM_SOLVING"
            ELSE classify(emotion_data),
         temperature |-> _calculate_response_temperature(emotion_data)]

----------------------------------------------------------------------------
(* Specification Spec: one call of process_text, from its arguments to the  *)
(* record it returns, the external services answering or failing            *)

MaxRequestTextLen == 2

MaxRequestHistory == 4

RequestTokens == {" ", "@", "HATE"}

\* the short texts, a text without a marker, and the shortest text that is
\* cleaned to a single space
RequestTexts ==
    SeqsUpTo(RequestTokens, MaxRequestTextLen) \cup {<<"ok">>, <<"@", " ", "@">>}

\* the history of scenario D: six exchanges of rising valence
ScenarioDHistory ==
    <<Annotated(-50, 50, 80), Annotated(-30, 50, 80), Annotated(-10, 50, 80),
      Annotated(10, 50, 80), Annotated(30, 50, 80), Annotated(50, 50, 80)>>

\* a history longer than the 10 exchanges the prompt lists: two exchanges of
\* negative valence followed by ten of positive valence
LongHistory ==
    <<Annotated(-50, 75, 75), Annotated(-50, 75, 75)>>
        \o [i \in 1..10 |-> Annotated(50, 75, 75)]

RequestHistories ==
    SeqsUpTo({Annotated(-50, 75, 75), Annotated(50, 75, 75)}, MaxRequestHistory)
        \cup {ScenarioDHistory, LongHistory}

\* what detect_sentiment answers when it does not raise
SentimentAnswers ==
    {[Sentiment |-> "POSITIVE", SentimentScore |-> ScenarioA.scores],
     [Sentiment |-> "NEGATIVE", SentimentScore |-> ScenarioB.scores],
     [Sentiment |-> "NEUTRAL",
      SentimentScore |-> [Positive |-> 20, Negative |-> 30, Neutral |-> 1000, Mixed |-> 0]],
     [Sentiment |-> "MIXED",
      SentimentScore |-> [Positive |-> 250, Negative |-> 250, Neutral |-> 50, Mixed |-> 500]],
     [Sentiment |-> "UNRECOGNIZED",
      SentimentScore |-> [Positive |-> 845, Negative |-> 50, Neutral |-> 50, Mixed |-> 50]]}

\* what detect_sentiment may answer that process_text cannot use: no label, no
\* score map, an empty score map
UnusableSentimentAnswers ==
    {[SentimentScore |-> ScenarioA.scores],
     [Sentiment |-> "POSITIVE"],
     [Sentiment |-> "POSITIVE", SentimentScore |-> <<>>]}

NoLanguage == "None"

Init ==
    /\ args \in [text : RequestTexts,
                 session_id : {"session-1"},
                 context : {<<>>, <<"ok">>},
                 conversation_history : RequestHistories]
    /\ ret = NotCalled
    /\ pc = "received"
    /\ frame = <<>>
    /\ calls = <<>>
    /\ openai_client \in BOOLEAN
    /\ http = NoRequest
    /\ db = NoRows

\* lines 838-844: the text is cleaned; an empty cleaned text ends the call
Preprocess ==
    /\ pc = "received"
    /\ LET cleaned_text == preprocess_text(args.text)
       IN  /\ frame' = [cleaned_text |-> cleaned_text] @@ frame
           /\ IF cleaned_text = <<>>
              THEN /\ ret' = [error |-> "Empty or invalid input text",
                              timestamp |-> "utcnow"]
                   /\ pc' = "done"
              ELSE /\ pc' = "cleaned"
                   /\ UNCHANGED ret
    /\ UNCHANGED <<args, calls, openai_client, apiVars>>

\* line 847
EnhanceContext ==
    /\ pc = "cleaned"
    /\ frame' = [enhanced_text |->
                    _enhance_text_with_context(frame.cleaned_text,
                                               args.conversation_history)] @@ frame
    /\ pc' = "context_enriched"
    /\ UNCHANGED <<args, ret, calls, openai_client, apiVars>>

\* line 850, rephrase_with_chatgpt: without a client the text is returned as
\* it is; with one the completion call answers or raises
Rephrase ==
    /\ pc = "context_enriched"
    /\ \/ /\ ~openai_client
          /\ frame' = [rephrased_text |-> frame.enhanced_text] @@ frame
          /\ UNCHANGED calls
       \/ /\ openai_client
          /\ calls' = Append(calls, "openai.rephrase")
          /\ \/ frame' = [rephrased_text |->
                             [completion_of |-> frame.enhanced_text]] @@ frame
             \/ frame' = [rephrased_text |->
                             rephrase_fallback(frame.enhanced_text)] @@ frame
    /\ pc' = "rephrased"
    /\ UNCHANGED <<args, ret, openai_client, apiVars>>

\* line 853, detect_language: a language code, or None when the call raised
\* or named no language
DetectLanguage ==
    /\ pc = "rephrased"
    /\ calls' = Append(calls, "comprehend.detect_dominant_language")
    /\ \E language \in {"en", NoLanguage} :
           frame' = [language |-> language] @@ frame
    /\ pc' = "language_detected"
    /\ UNCHANGED <<args, ret, openai_client, apiVars>>

\* lines 856-858, analyze_sentiment: the answer of the service as it is, or
\* the NEUTRAL distribution when the call raised (the error is logged); an
\* answer without the label or without the score map raises KeyError at
\* lines 857-858
AnalyzeSentiment ==
    /\ pc = "language_detected"
    /\ \/ /\ calls' = Append(calls, "comprehend.detect_sentiment")
          /\ \E sentiment_result \in SentimentAnswers \cup UnusableSentimentAnswers :
                 IF {"Sentiment", "SentimentScore"} \subseteq DOMAIN sentiment_result
                 THEN /\ frame' = [sentiment_result |-> sentiment_result,
                                   sentiment |-> sentiment_result.Sentiment,
                                   scores |-> sentiment_result.SentimentScore] @@ frame
                      /\ pc' = "sentiment_obtained"
                      /\ UNCHANGED ret
                 ELSE /\ frame' = [sentiment_result |-> sentiment_result] @@ frame
                      /\ ret' = [raised |-> "KeyError"]
                      /\ pc' = "raised"
       \/ /\ calls' = calls \o <<"comprehend.detect_sentiment",
                                  "logger.error: Sentiment analysis failed">>
          /\ frame' = [sentiment_result |-> sentiment_fallback,
                       sentiment |-> sentiment_fallback.Sentiment,
                       scores |-> sentiment_fallback.SentimentScore] @@ frame
          /\ pc' = "sentiment_obtained"
          /\ UNCHANGED ret
    /\ UNCHANGED <<args, openai_client, apiVars>>

\* lines 861-865; max() of an empty score map raises ValueError at line 172
MapEmotion ==
    /\ pc = "sentiment_obtained"
    /\ IF DOMAIN frame.scores = {}
       THEN /\ ret' = [raised |-> "ValueError"]
            /\ pc' = "raised"
            /\ UNCHANGED frame
       ELSE /\ frame' = [emotion_data |->
                           [sentiment_scores |-> frame.scores,
                            sentiment |-> frame.sentiment]
                           @@ map_sentiment_to_emotion(frame.sentiment, frame.scores)]
                        @@ frame
            /\ pc' = "vector_mapped"
            /\ UNCHANGED ret
    /\ UNCHANGED <<args, calls, openai_client, apiVars>>

\* line 868
DetectFeedback ==
    /\ pc = "vector_mapped"
    /\ frame' = [frame EXCEPT !.emotion_data =
                    _detect_feedback_and_adjust_strategy(frame.cleaned_text, @)]
    /\ pc' = "feedback_checked"
    /\ UNCHANGED <<args, ret, calls, openai_client, apiVars>>

\* lines 871-882
TrendAdjust ==
    /\ pc = "feedback_checked"
    /\ LET emotional_trends ==
               IF args.conversation_history # <<>>
               THEN _analyze_conversation_emotional_patterns(args.conversation_history)
               ELSE None
       IN  frame' = IF emotional_trends # None
                    THEN [frame EXCEPT !.emotion_data =
                             apply_trend_nudge(@, emotional_trends)]
                    ELSE frame
    /\ pc' = "trend_adjusted"
    /\ UNCHANGED <<args, ret, calls, openai_client, apiVars>>

\* lines 573-574: without a client the response is the template
FallbackResponse ==
    /\ pc = "trend_adjusted"
    /\ ~openai_client
    /\ frame' = [response |-> generate_adaptive_response(frame.emotion_data, <<>>)] @@ frame
    /\ pc' = "response_obtained"
    /\ UNCHANGED <<args, ret, calls, openai_client, apiVars>>

\* a bug the orchestrator could have: strategy and parameters computed right
\* after feedback detection, the trend nudge left out
ComputeStrategyAndParams_skips_trend ==
    /\ pc = "feedback_checked"
    /\ openai_client
    /\ frame' = [params |-> strategy_and_params(frame.emotion_data)] @@ frame
    /\ pc' = "params_computed"
    /\ UNCHANGED <<args, ret, calls, openai_client, apiVars>>

\* lines 576-798: with a client, strategy, intensity and temperature
ComputeStrategyAndParams ==
    /\ pc = "trend_adjusted"
    /\ openai_client
    /\ frame' = [params |-> strategy_and_params(frame.emotion_data)] @@ frame
    /\ pc' = "params_computed"
    /\ UNCHANGED <<args, ret, calls, openai_client, apiVars>>

\* lines 800-821: the completion call answers, or raises and the template
\* stands in
Generate ==
    /\ pc = "params_computed"
    /\ calls' = Append(calls, "openai.generate")
    /\ \/ frame' = [response |->
                       [completion_with |-> frame.params]] @@ frame
       \/ frame' = [response |->
                       generation_fallback(frame.emotion_data,
                                           args.conversation_history)] @@ frame
    /\ pc' = "response_obtained"
    /\ UNCHANGED <<args, ret, openai_client, apiVars>>

\* lines 888-906
Assemble ==
    /\ pc = "response_obtained"
    /\ ret' = [input_text |-> frame.cleaned_text,
               rephrased_text |-> frame.rephrased_text,
               original_text |-> args.text,
               language |-> frame.language,
               sentiment |-> frame.sentiment,
               sentiment_scores |-> frame.scores,
               emotion |-> frame.emotion_data.emotion,
               valence |-> frame.emotion_data.valence,
               arousal |-> frame.emotion_data.arousal,
               confidence |-> frame.emotion_data.confidence,
               adaptive_response |-> frame.response,
               session_id |-> args.session_id,
               timestamp |-> "utcnow"]
    /\ pc' = "done"
    /\ UNCHANGED <<args, frame, calls, openai_client, apiVars>>

Next ==
    \/ Preprocess
    \/ EnhanceContext
    \/ Rephrase
    \/ DetectLanguage
    \/ AnalyzeSentiment
    \/ MapEmotion
    \/ DetectFeedback
    \/ TrendAdjust
    \/ FallbackResponse
    \/ ComputeStrategyAndParams
    \/ Generate
    \/ Assemble

Spec == Init /\ [][Next]_vars

----------------------------------------------------------------------------
(* Claims on process_text *)

\* the trend of a history as the nudge sees it: absent without a history or
\* without a summary
TrendOf(h) ==
    IF h = <<>> \/ _analyze_conversation_emotional_patterns(h) = None THEN "absent"
    ELSE _analyze_conversation_emotional_patterns(h).trend

\* C9: the trend nudge of process_text changes the valence to
\* min(1.0, valence + 0.1) under an Improving history and to
\* max(-1.0, valence - 0.1) under a Declining one, and leaves it unchanged
\* under a Stable, insufficient-data or absent trend; arousal and confidence
\* are never changed; the history of scenario D is Improving and nudges the
\* valence by +0.1.
C9_TrendNudge ==
    [][(pc = "feedback_checked" /\ pc' = "trend_adjusted") =>
        LET before == frame.emotion_data
            after == frame'.emotion_data
            trend == TrendOf(args.conversation_history)
        IN  /\ trend = "Improving Emotional State" =>
                  after.valence = (IF before.valence + 10 > 100 THEN 100
                                   ELSE before.valence + 10)
            /\ trend = "Declining Emotional State" =>
                  after.valence = (IF before.valence - 10 < -100 THEN -100
                                   ELSE before.valence - 10)
            /\ trend \in {"Stable Emotional State",
                          "Insufficient Data for Trend Analysis", "absent"} =>
                  after.valence = before.valence
            /\ after.arousal = before.arousal
            /\ after.confidence = before.confidence
            /\ args.conversation_history = ScenarioDHistory =>
                  /\ trend = "Improving Emotional State"
                  /\ after.valence = before.valence + 10
    ]_vars

\* scenario D after scenario A's sentiment: the mapped valence 0.72 nudged to 0.82
C9_Witness ==
    /\ pc = "trend_adjusted"
    /\ args.conversation_history = ScenarioDHistory
    /\ frame.scores = ScenarioA.scores
    /\ frame.emotion_data.conversation_trend = "Improving Emotional State"
    /\ frame.emotion_data.valence = 82

\* the cleaned text is empty or holds whitespace only
IsBlank(text) == \A i \in 1..Len(text) : IsSpace(text[i])

\* C10: whenever the text produced by preprocess_text is empty or consists of
\* whitespace only, process_text returns the error result, and no rephrasing,
\* language detection, sentiment analysis or response generation is invoked.
C10_BlankRejected ==
    IsBlank(preprocess_text(args.text)) =>
        /\ calls = <<>>
        /\ pc \in {"received", "done"}
        /\ pc = "done" => "error" \in DOMAIN ret

\* the sentiment call of this request raised (the error was logged)
SentimentFailed ==
    \E i \in 1..Len(calls) : calls[i] = "logger.error: Sentiment analysis failed"

\* process_text returned a full result record
Completed == pc = "done" /\ "error" \notin DOMAIN ret

ResultKeys ==
    {"input_text", "rephrased_text", "original_text", "language", "sentiment",
     "sentiment_scores", "emotion", "valence", "arousal", "confidence",
     "adaptive_response", "session_id", "timestamp"}

\* C12: when the sentiment-service call raises, analyze_sentiment returns
\* NEUTRAL with scores {Positive 0.25, Negative 0.25, Neutral 0.5, Mixed 0.0},
\* the mapped vector is the NEUTRAL entry at confidence 0.5 (valence 0.0,
\* arousal 0.1), and process_text completes with a full result record that
\* carries no error key.
C12_SentimentFallback ==
    SentimentFailed =>
        /\ pc # "raised"
        /\ frame.sentiment = "NEUTRAL"
        /\ frame.scores =
              [Positive |-> 250, Negative |-> 250, Neutral |-> 500, Mixed |-> 0]
        /\ pc = "vector_mapped" =>
              /\ frame.emotion_data.emotion = emotion_mapping["NEUTRAL"].emotion
              /\ frame.emotion_data.confidence = 50
              /\ frame.emotion_data.valence = 0
              /\ frame.emotion_data.arousal = 10
        /\ pc = "done" =>
              /\ DOMAIN ret = ResultKeys
              /\ ret.sentiment = "NEUTRAL"
              /\ ret.sentiment_scores = frame.scores

\* a request without marker or history completed on the fallback values
C12_Witness ==
    /\ SentimentFailed
    /\ Completed
    /\ args.text = <<"ok">>
    /\ args.conversation_history = <<>>
    /\ ret.valence = 0 /\ ret.arousal = 10 /\ ret.confidence = 50

\* the response is the template with clauses, not a completion
IsTemplateResponse(response) == "template" \in DOMAIN response

\* C14: when the text-generation call fails or no generator is configured, the
\* adaptive response is the vector's default response template; when the
\* request supplied a non-empty context one clause referencing that context is
\* appended to it, and no other text is appended.
C14_TemplateFallback ==
    (Completed /\ IsTemplateResponse(ret.adaptive_response)) =>
        /\ ret.adaptive_response.template =
              ClaimedEntry(ret.sentiment).response_template
        /\ IF args.context # <<>>
           THEN /\ Len(ret.adaptive_response.clauses) = 1
                /\ ret.adaptive_response.clauses[1].about = args.context
           ELSE ret.adaptive_response.clauses = <<>>

\* C17 as stated: in every result record valence = baseValence(sentiment) *
\* confidence and arousal = baseArousal(sentiment) * confidence within the
\* rounding to 2 decimals, sentiment and confidence being the record's fields.
C17_Original ==
    Completed =>
        LET e == ClaimedEntry(ret.sentiment)
        IN  /\ Abs(10 * ret.valence - e.valence * ret.confidence) <= 10
            /\ Abs(10 * ret.arousal - e.arousal * ret.confidence) <= 10

\* the shift of the valence the trend of a history gives, in hundredths
NudgeOf(h) ==
    IF TrendOf(h) = "Improving Emotional State" THEN 10
    ELSE IF TrendOf(h) = "Declining Emotional State" THEN -10
    ELSE 0

\* C17 amended: in every result record the fields are those of the mapped
\* vector (confidence c0 = max score, valence v0 = baseValence * max score,
\* arousal a0 = baseArousal * max score, each rounded to 2 decimals) changed
\* by the two later steps: a feedback marker in the cleaned text raises the
\* arousal to min(1.0, a0 + 0.2) and the confidence to max(0.7, c0), and an
\* Improving or Declining history moves the valence to v0 + 0.1 or v0 - 0.1,
\* clamped to [-1, 1].  The products of the claim hold when the text has no
\* marker and the trend is neither Improving nor Declining.
C17_ResultVector ==
    Completed =>
        LET e == ClaimedEntry(ret.sentiment)
            m == SetMax({ret.sentiment_scores[k] : k \in DOMAIN ret.sentiment_scores})
            marked == is_feedback(ret.input_text)
            nudge == NudgeOf(args.conversation_history)
        IN  /\ \E c0 \in 0..100 :
                  /\ Abs(10 * c0 - m) <= 5
                  /\ ret.confidence = IF marked /\ c0 < 70 THEN 70 ELSE c0
            /\ \E v0 \in -100..100 :
                  /\ Abs(100 * v0 - e.valence * m) <= 50
                  /\ ret.valence = IF v0 + nudge > 100 THEN 100
                                   ELSE IF v0 + nudge < -100 THEN -100
                                   ELSE v0 + nudge
            /\ \E a0 \in 0..100 :
                  /\ Abs(100 * a0 - e.arousal * m) <= 50
                  /\ ret.arousal = IF ~marked THEN a0
                                   ELSE IF a0 + 20 > 100 THEN 100 ELSE a0 + 20
            /\ (~marked /\ nudge = 0) =>
                  /\ Abs(10 * ret.valence - e.valence * ret.confidence) <= 10
                  /\ Abs(10 * ret.arousal - e.arousal * ret.confidence) <= 10

\* scenario B's sentiment on a text with a marker, after the history of
\* scenario D: valence -0.68 + 0.1, arousal 0.59 + 0.2, confidence 0.85
C17_Witness ==
    /\ Completed
    /\ is_feedback(ret.input_text)
    /\ args.conversation_history = ScenarioDHistory
    /\ ret.sentiment = "NEGATIVE"
    /\ ret.valence = -58 /\ ret.arousal = 79 /\ ret.confidence = 85

\* C18: in every result record valence is in [-1, 1], arousal in [0, 1] and
\* confidence in [0, 1], for every sentiment label, score map with values in
\* [0, 1], input text and conversation history.
C18_ResultRanges ==
    Completed =>
        /\ ret.valence \in -100..100
        /\ ret.arousal \in 0..100
        /\ ret.confidence \in 0..100

\* a score of 1.0 on a text with a marker: confidence 1.0, arousal raised
C18_Witness ==
    /\ Completed
    /\ is_feedback(ret.input_text)
    /\ ret.sentiment = "NEUTRAL"
    /\ ret.confidence = 100
    /\ ret.arousal = 40

\* the last n exchanges of a history
LastExchanges(h, n) == IF Len(h) > n THEN SubSeq(h, Len(h) - n + 1, Len(h)) ELSE h

\* two averages <<sum, count>> are the same number
SameAverage(x, y) == x[1] * y[2] = y[1] * x[2]

\* C19 as stated, for a history and its own last 10 exchanges (two histories
\* that agree on their last 10 exchanges): the summary and the nudge used in
\* the request are those of the last 10 exchanges.
C19_Original ==
    (pc = "trend_adjusted" /\ args.conversation_history # <<>>) =>
        LET recent == _analyze_conversation_emotional_patterns(
                          LastExchanges(args.conversation_history, 10))
            used == frame.enhanced_text.emotional_context
        IN  IF recent = None THEN used = None
            ELSE /\ used # None
                 /\ used.pattern = recent.pattern
                 /\ used.trend = recent.trend
                 /\ SameAverage(used.avg_valence, recent.avg_valence)
                 /\ SameAverage(used.avg_arousal, recent.avg_arousal)
                 /\ frame.emotion_data.conversation_trend = recent.trend

\* C19 amended: the summary used within one request is computed from the
\* whole conversation history: its averages run over every annotated exchange
\* of the history, however old, and the same summary gives the trend of the
\* nudge; only the list of exchanges quoted in the enhanced text is bounded
\* to the last 10.  Two exchanges of valence -0.5 followed by ten of valence
\* 0.5 are Improving with average valence 4.0/12, while the last ten alone are
\* Stable.
C19_WholeHistory ==
    (pc = "trend_adjusted" /\ args.conversation_history # <<>>) =>
        LET h == args.conversation_history
            used == frame.enhanced_text.emotional_context
        IN  /\ frame.enhanced_text.context_exchanges = LastExchanges(h, 10)
            /\ AnnotatedCount(h) = 0 =>
                  /\ used = None
                  /\ "conversation_trend" \notin DOMAIN frame.emotion_data
            /\ AnnotatedCount(h) > 0 =>
                  /\ used # None
                  /\ used.avg_valence[2] = AnnotatedCount(h)
                  /\ used.avg_arousal[2] = AnnotatedCount(h)
                  /\ frame.emotion_data.conversation_trend = used.trend
            /\ h = LongHistory =>
                  /\ used.trend = "Improving Emotional State"
                  /\ used.avg_valence = <<400, 12>>
                  /\ TrendOf(LastExchanges(h, 10)) = "Stable Emotional State"

\* the long history nudges scenario B's valence from -0.68 to -0.58
C19_Witness ==
    /\ pc = "trend_adjusted"
    /\ args.conversation_history = LongHistory
    /\ Len(frame.enhanced_text.context_exchanges) = 10
    /\ frame.emotion_data.conversation_trend = "Improving Emotional State"
    /\ frame.sentiment = "NEGATIVE"
    /\ frame.emotion_data.valence = -58

----------------------------------------------------------------------------
(* The backend: POST /analyze (src/backend/main.py) over DatabaseService    *)
(* (src/services/database_service.py).  A request goes through the handler  *)
(* up to the call of process_text, through process_text (the actions of     *)
(* Spec), and through the rest of the handler.                              *)

\* the number of characters of a token and of a text
TokenLength(t) ==
    CASE t = "word5000" -> 5000
      [] t \in {"HATE", "hate", "Hate", "want", "WANT", "Want"} -> 4
      [] t \in {"ok", "OK"} -> 2
      [] OTHER -> 1

RECURSIVE TextLength(_)
TextLength(text) ==
    IF text = <<>> THEN 0 ELSE TokenLength(Head(text)) + TextLength(Tail(text))

\* None as a session or analysis identifier
NoId == "None"

\* a bug the handler could have: the text validated without being stripped
validate_request_unstripped(data, fresh_id) ==
    IF "invalid_json" \in DOMAIN data
    THEN [status |-> 400, detail |-> "Invalid JSON in request body"]
    ELSE LET text == Get(data, "text", <<>>)
             session_id == Get(data, "session_id", NoId)
         IN  IF text = <<>>
                 THEN [status |-> 400, detail |-> "Text input is required"]
             ELSE IF TextLength(text) > 5000
                 THEN [status |-> 400,
                       detail |-> "Text input too long (max 5000 characters)"]
             ELSE [text |-> text,
                   session_id |-> IF session_id = NoId THEN fresh_id ELSE session_id,
                   context |-> Get(data, "context", <<>>),
                   conversation_history |-> Get(data, "conversation_history", <<>>)]

\* analyze_emotion, lines 88-109: the error response of a rejected request, or
\* the arguments process_text is called with
validate_request(data, fresh_id) ==
    IF "invalid_json" \in DOMAIN data
    THEN [status |-> 400, detail |-> "Invalid JSON in request body"]
    ELSE LET text == Strip(Get(data, "text", <<>>))
             session_id == Get(data, "session_id", NoId)
         IN  IF text = <<>>
                 THEN [status |-> 400, detail |-> "Text input is required"]
             ELSE IF TextLength(text) > 5000
                 THEN [status |-> 400,
                       detail |-> "Text input too long (max 5000 characters)"]
             ELSE [text |-> text,
                   session_id |-> IF session_id = NoId THEN fresh_id ELSE session_id,
                   context |-> Get(data, "context", <<>>),
                   conversation_history |-> Get(data, "conversation_history", <<>>)]

\* DatabaseService.save_emotion_analysis: the row added to emotion_analyses;
\* its timestamp is the clock read at the write (line 49, and the column
\* default of EmotionAnalysis), not the timestamp of the analysis
save_emotion_analysis(rows, analysis_data, analysis_id) ==
    Append(rows,
           [id |-> analysis_id,
            session_id |-> Get(analysis_data, "session_id", NoId),
            input_text |-> Get(analysis_data, "input_text", NoId),
            original_text |-> Get(analysis_data, "original_text", NoId),
            language |-> Get(analysis_data, "language", NoId),
            sentiment |-> Get(analysis_data, "sentiment", NoId),
            sentiment_scores |-> Get(analysis_data, "sentiment_scores", NoId),
            emotion |-> Get(analysis_data, "emotion", NoId),
            valence |-> Get(analysis_data, "valence", NoId),
            arousal |-> Get(analysis_data, "arousal", NoId),
            confidence |-> Get(analysis_data, "confidence", NoId),
            adaptive_response |-> Get(analysis_data, "adaptive_response", NoId),
            timestamp |-> "utcnow at the write"])

\* DatabaseService.update_session with a total_analyses that is not None: an
\* existing session gets the total it is given, a new one `total_analyses or 1`
update_session(sessions, session_id, total_analyses, now) ==
    IF session_id \in DOMAIN sessions
    THEN [sessions EXCEPT ![session_id] =
             [@ EXCEPT !.last_activity = now, !.total_analyses = total_analyses]]
    ELSE (session_id :> [created_at |-> now,
                         last_activity |-> now,
                         total_analyses |-> IF total_analyses = 0 THEN 1
                                            ELSE total_analyses])
         @@ sessions

\* DatabaseService.get_session_history: the latest `limit` records of the
\* session, the latest first
get_session_history(tables, session_id, limit) ==
    LET kept == SelectSeq(tables.emotion_analyses,
                          LAMBDA row : row.session_id = session_id)
        latest_first == [i \in 1..Len(kept) |-> kept[Len(kept) + 1 - i]]
    IN  SubSeq(latest_first, 1, Min(limit, Len(kept)))

\* a bug the service could have: the analyses deleted without the filter on
\* the session
delete_session_every_analysis(tables, session_id) ==
    [tables EXCEPT
        !.emotion_analyses = <<>>,
        !.user_sessions = [s \in (DOMAIN @) \ {session_id} |-> @[s]]]

\* DatabaseService.delete_session
delete_session(tables, session_id) ==
    [tables EXCEPT
        !.emotion_analyses = SelectSeq(@, LAMBDA row : row.session_id # session_id),
        !.user_sessions = [s \in (DOMAIN @) \ {session_id} |-> @[s]]]

StoreOutcomes == {"stored", "save_raises", "update_raises"}

\* a bug the handler could have: the identifier returned although the save
\* raised
store_analysis_keeps_id(tables, result, session_id, now, outcome) ==
    LET analysis_id == "analysis-" \o ToString(now)
        saved == [tables EXCEPT !.emotion_analyses =
                     save_emotion_analysis(@, result, analysis_id)]
        updated == [saved EXCEPT !.user_sessions =
                       update_session(@, session_id, 1, now)]
    IN  CASE outcome = "stored" ->
                [tables |-> updated, analysis_id |-> analysis_id, raised |-> FALSE]
          [] outcome = "save_raises" ->
                [tables |-> tables, analysis_id |-> analysis_id, raised |-> TRUE]
          [] outcome = "update_raises" ->
                IF tables.use_dynamodb
                THEN [tables |-> saved, analysis_id |-> analysis_id, raised |-> FALSE]
                ELSE [tables |-> saved, analysis_id |-> NoId, raised |-> TRUE]

\* analyze_emotion, lines 121-128: the analysis saved and the session updated
\* with a total of 1; an exception leaves analysis_id None.  The DynamoDB
\* update swallows its own exceptions (lines 147-148).
store_analysis(tables, result, session_id, now, outcome) ==
    LET analysis_id == "analysis-" \o ToString(now)
        saved == [tables EXCEPT !.emotion_analyses =
                     save_emotion_analysis(@, result, analysis_id)]
        updated == [saved EXCEPT !.user_sessions =
                       update_session(@, session_id, 1, now)]
    IN  CASE outcome = "stored" ->
                [tables |-> updated, analysis_id |-> analysis_id, raised |-> FALSE]
          [] outcome = "save_raises" ->
                [tables |-> tables, analysis_id |-> NoId, raised |-> TRUE]
          [] outcome = "update_raises" ->
                IF tables.use_dynamodb
                THEN [tables |-> saved, analysis_id |-> analysis_id, raised |-> FALSE]
                ELSE [tables |-> saved, analysis_id |-> NoId, raised |-> TRUE]

----------------------------------------------------------------------------
(* Specification SpecApi: a sequence of /analyze requests and deletions of  *)
(* sessions against one database                                            *)

MaxRequests == 2

\* the texts of the request bodies: empty, whitespace only, short, a special
\* character only, and texts of 5000 and more characters
ApiTexts ==
    {<<>>, <<" ">>, <<"ok">>, <<"@">>,
     <<"word5000">>, <<"word5000", " ">>, <<"word5000", "@">>,
     <<" ", "word5000", "ok">>}

\* the JSON bodies: with and without a text, with and without a session id,
\* and a body that is no JSON
RequestBodies ==
    [text : ApiTexts] \cup [text : ApiTexts, session_id : {"s1"}]
        \cup {[session_id |-> "s1"], [invalid_json |-> TRUE]}

\* the requests received so far
Served == Get(http, "n", 0)

InitApi ==
    /\ args = <<>>
    /\ ret = NotCalled
    /\ pc = "idle"
    /\ frame = <<>>
    /\ calls = <<>>
    /\ openai_client \in BOOLEAN
    /\ http = NoRequest
    /\ \E use_dynamodb \in BOOLEAN : db = [use_dynamodb |-> use_dynamodb] @@ NoRows

\* analyze_emotion, lines 88-113: the body parsed and validated, then either
\* the error response or the call of process_text
ReceiveRequest ==
    /\ http.pc \in {"none", "responded"}
    /\ Served < MaxRequests
    /\ \E data \in RequestBodies :
           LET n == Served + 1
               validated == validate_request(data, "uuid-" \o ToString(n))
           IN  IF "status" \in DOMAIN validated
               THEN /\ http' = [pc |-> "responded", n |-> n, data |-> data,
                               response |-> validated]
                    /\ args' = <<>>
                    /\ pc' = "idle"
               ELSE /\ http' = [pc |-> "in_agent", n |-> n, data |-> data]
                    /\ args' = validated
                    /\ pc' = "received"
    /\ ret' = NotCalled
    /\ frame' = <<>>
    /\ calls' = <<>>
    /\ UNCHANGED <<openai_client, db>>

\* analyze_emotion, lines 114-119: process_text raised, or returned an error
RespondAgentFailure ==
    /\ http.pc = "in_agent"
    /\ \/ /\ pc = "raised"
          /\ calls' = Append(calls, "logger.error: State Agent processing error")
          /\ http' = [pc |-> "responded",
                      response |-> [status |-> 500,
                                    detail |-> "Error processing emotion analysis"]]
                     @@ http
       \/ /\ pc = "done" /\ "error" \in DOMAIN ret
          /\ http' = [pc |-> "responded",
                      response |-> [status |-> 400, detail |-> ret.error]] @@ http
          /\ UNCHANGED calls
    /\ UNCHANGED <<args, ret, pc, frame, openai_client, db>>

\* analyze_emotion, lines 121-136: the analysis stored, the response returned
StoreAndRespond ==
    /\ http.pc = "in_agent"
    /\ pc = "done" /\ "error" \notin DOMAIN ret
    /\ \E outcome \in StoreOutcomes :
           LET written == store_analysis(db, ret, args.session_id, http.n, outcome)
           IN  /\ db' = written.tables
               /\ calls' = IF written.raised
                           THEN Append(calls, "logger.error: Database save error")
                           ELSE calls
               /\ http' = [pc |-> "responded",
                           response |-> [status |-> 200,
                                         success |-> TRUE,
                                         analysis |-> ret,
                                         session_id |-> args.session_id,
                                         analysis_id |-> written.analysis_id]]
                          @@ http
    /\ UNCHANGED <<args, ret, pc, frame, openai_client>>

\* the session ids the tables hold
StoredSessionIds ==
    DOMAIN db.user_sessions
        \cup {db.emotion_analyses[i].session_id : i \in 1..Len(db.emotion_analyses)}

\* DELETE /sessions/{session_id} between two requests
DeleteSession ==
    /\ http.pc \in {"none", "responded"}
    /\ \E session_id \in StoredSessionIds : db' = delete_session(db, session_id)
    /\ UNCHANGED <<args, ret, pc, frame, calls, openai_client, http>>

NextApi ==
    \/ ReceiveRequest
    \/ Next
    \/ RespondAgentFailure
    \/ StoreAndRespond
    \/ DeleteSession

SpecApi == InitApi /\ [][NextApi]_vars

----------------------------------------------------------------------------
(* Claims on the backend                                                    *)

\* the text of the request body is missing, empty, whitespace only, or, as the
\* endpoint measures it (surrounding whitespace stripped), longer than 5000
\* characters
RejectableText(data) ==
    /\ "invalid_json" \notin DOMAIN data
    /\ \/ "text" \notin DOMAIN data
       \/ data.text = <<>>
       \/ IsBlank(data.text)
       \/ TextLength(Strip(data.text)) > 5000

UnusableSentimentResult ==
    /\ "sentiment_result" \in DOMAIN frame
    /\ LET sentiment_result == frame.sentiment_result
       IN  IF {"Sentiment", "SentimentScore"} \subseteq DOMAIN sentiment_result
           THEN DOMAIN sentiment_result.SentimentScore = {}
           ELSE TRUE

\* C13: when the sentiment collaborator returns a result without the label,
\* without the score map or with an empty score map, process_text does not
\* raise, and the response of /analyze is the successful one, carrying the
\* NEUTRAL fallback values.
C13_UnusableRecovered ==
    UnusableSentimentResult =>
        /\ pc # "raised"
        /\ http.pc = "responded" =>
               /\ http.response.status = 200
               /\ http.response.success
               /\ http.response.analysis.sentiment = sentiment_fallback.Sentiment
               /\ http.response.analysis.sentiment_scores
                      = sentiment_fallback.SentimentScore

\* the step in which /analyze answers a request whose analysis process_text
\* has computed
AnswersComputedAnalysis ==
    /\ http.pc = "in_agent"
    /\ Completed
    /\ http'.pc = "responded"

\* C15: when the storage write of a computed analysis fails (no analysis record
\* is added), /analyze answers 200 with success = true, the full analysis and
\* the session id, and analysis_id null; an analysis_id that is returned is the
\* id of the record that was added.
C15_PersistenceFailure ==
    [][AnswersComputedAnalysis =>
          /\ db'.emotion_analyses = db.emotion_analyses =>
                 /\ http'.response.status = 200
                 /\ http'.response.success
                 /\ http'.response.analysis = ret
                 /\ DOMAIN http'.response.analysis = ResultKeys
                 /\ http'.response.session_id = args.session_id
                 /\ http'.response.analysis_id = NoId
          /\ http'.response.analysis_id # NoId =>
                 /\ Len(db'.emotion_analyses) = Len(db.emotion_analyses) + 1
                 /\ db'.emotion_analyses[Len(db'.emotion_analyses)].id
                        = http'.response.analysis_id]_vars

\* the second request of a session is answered with success and without an
\* identifier, and the tables hold the first request's record only
C15_Witness ==
    /\ http.pc = "responded"
    /\ http.n = 2
    /\ http.response.status = 200
    /\ http.response.success
    /\ http.response.analysis_id = NoId
    /\ http.response.session_id = "s1"
    /\ Len(db.emotion_analyses) = 1
    /\ db.emotion_analyses[1].id = "analysis-1"
    /\ db.emotion_analyses[1].session_id = "s1"
    /\ \E i \in 1..Len(calls) : calls[i] = "logger.error: Database save error"

\* the analysis records stored for a session
RecordsOf(tables, session_id) ==
    SelectSeq(tables.emotion_analyses, LAMBDA row : row.session_id = session_id)

\* the count stored for a session, 0 when it has no row
TotalAnalyses(tables, session_id) ==
    IF session_id \in DOMAIN tables.user_sessions
    THEN tables.user_sessions[session_id].total_analyses
    ELSE 0

\* the step in which a request stores its record and updates its session
StoresAndUpdates ==
    /\ AnswersComputedAnalysis
    /\ Len(RecordsOf(db', args.session_id)) = Len(RecordsOf(db, args.session_id)) + 1
    /\ args.session_id \in DOMAIN db'.user_sessions
    /\ db'.user_sessions[args.session_id].last_activity = http.n

\* C16: every successful /analyze request increments the count stored for its
\* session by 1 (so that n requests with no delete in between give
\* total_analyses = n), and a count that equalled the number of the session's
\* records before the request equals it after the request.
C16_SessionCount ==
    [][StoresAndUpdates =>
          /\ TotalAnalyses(db', args.session_id)
                 = TotalAnalyses(db, args.session_id) + 1
          /\ TotalAnalyses(db, args.session_id)
                 = Len(RecordsOf(db, args.session_id))
             => TotalAnalyses(db', args.session_id)
                    = Len(RecordsOf(db', args.session_id))]_vars

\* the orchestrator states in the stated order, the error exit after cleaning
\* and the exits by an exception
StatedOrder ==
    {<<"received", "cleaned">>, <<"received", "done">>,
     <<"cleaned", "context_enriched">>, <<"context_enriched", "rephrased">>,
     <<"rephrased", "language_detected">>,
     <<"language_detected", "sentiment_obtained">>, <<"language_detected", "raised">>,
     <<"sentiment_obtained", "vector_mapped">>, <<"sentiment_obtained", "raised">>,
     <<"vector_mapped", "feedback_checked">>,
     <<"feedback_checked", "trend_adjusted">>,
     <<"trend_adjusted", "params_computed">>,
     <<"params_computed", "response_obtained">>,
     <<"response_obtained", "done">>}

\* the generation call has been made
GenerationCalled == \E i \in 1..Len(calls) : calls[i] = "openai.generate"

\* C21 as stated: every run of process_text moves through the orchestrator
\* states in the stated order, and no run returns the assembled record without
\* the strategy-and-parameters step.
C21_Original ==
    /\ [][pc' # pc => <<pc, pc'>> \in StatedOrder]_vars
    /\ [](Completed => "params" \in DOMAIN frame)

\* C21, amended: every run moves through the states in the stated order, but
\* an agent without a completion client goes from the trend nudge straight to
\* the template response; with a client, strategy, intensity and temperature
\* are those of the vector after feedback detection and the trend nudge, they
\* are computed before the generation call, and the generation call is made
\* only after the sentiment result is obtained.
C21_OrchestratorOrder ==
    /\ [][pc' # pc =>
             \/ <<pc, pc'>> \in StatedOrder /\ (pc = "trend_adjusted" => openai_client)
             \/ /\ <<pc, pc'>> = <<"trend_adjusted", "response_obtained">>
                /\ ~openai_client]_vars
    /\ [](/\ Completed => ("params" \in DOMAIN frame <=> openai_client)
          /\ "params" \in DOMAIN frame =>
                 /\ pc \in {"params_computed", "response_obtained", "done"}
                 /\ frame.params = strategy_and_params(frame.emotion_data)
          /\ GenerationCalled =>
                 /\ {"sentiment", "params"} \subseteq DOMAIN frame
                 /\ pc \in {"response_obtained", "done"})

\* a run without a client has returned the record and never computed strategy
\* and parameters
C21_Witness ==
    /\ Completed
    /\ ~openai_client
    /\ "params" \notin DOMAIN frame
    /\ "response" \in DOMAIN frame

ModerateLabels ==
    {"EXCITED_DETAILED_SEARCH", "STRESSED_URGENT_CLEAR", "BORED_SIMPLE_CLEAR",
     "CALM_ENGAGING_CONVERSATION", "ADAPTIVE_CONTEXTUAL"}

LowLabels ==
    {"UNCERTAIN_BUT_ENERGETIC_EXPLORATION", "UNCERTAIN_CALM_GUIDANCE",
     "MIXED_EMOTIONS_ADAPTIVE_SUPPORT"}

\* C22: in the moderate tier (0.4 < confidence <= 0.7) a vector with arousal
\* exactly 0.5 is classified EXCITED_DETAILED_SEARCH for valence in [0.2, 0.8]
\* and STRESSED_URGENT_CLEAR for valence in [-0.8, -0.2], the first band that
\* matches, never CALM_ENGAGING_CONVERSATION or BORED_SIMPLE_CLEAR; confidence
\* exactly 0.7 is classified by the moderate tier and confidence exactly 0.4 by
\* the low tier.
C22_FirstMatchWins ==
    ret.fn = "_determine_response_strategy" =>
        /\ 40 < args.confidence /\ args.confidence <= 70 /\ args.arousal = 50 =>
               /\ 20 <= args.valence /\ args.valence <= 80
                      => ret.value = "EXCITED_DETAILED_SEARCH"
               /\ -80 <= args.valence /\ args.valence <= -20
                      => ret.value = "STRESSED_URGENT_CLEAR"
               /\ ret.value \notin {"CALM_ENGAGING_CONVERSATION", "BORED_SIMPLE_CLEAR"}
        /\ args.confidence = 70 =>
               /\ ret.value \in ModerateLabels
               /\ InBand(args, <<20, 80, 10, 49>>)
                      => ret.value = "CALM_ENGAGING_CONVERSATION"
        /\ args.confidence = 40 =>
               /\ ret.value \in LowLabels
               /\ InBand(args, <<-20, 20, 0, 40>>)
                      => ret.value = "UNCERTAIN_CALM_GUIDANCE"

\* the vector on the edge of both positive bands of the moderate tier, at the
\* upper edge of the tier
C22_Witness ==
    /\ ret.fn = "_determine_response_strategy"
    /\ args = [valence |-> 20, arousal |-> 50, confidence |-> 70]
    /\ ret.value = "EXCITED_DETAILED_SEARCH"

\* the valences of the exchanges of a history that carry one
ValencesOf(h) ==
    LET kept == SelectSeq(h, LAMBDA exchange : "valence" \in DOMAIN exchange)
    IN  [i \in 1..Len(kept) |-> kept[i].valence]

\* the sign of (mean of the last n - floor(n/2) values) - (mean of the first
\* floor(n/2) values) - 0.2 and of the same with + 0.2, as exact fractions
MeanDifferenceBeyond(valences, direction) ==
    LET half == Len(valences) \div 2
        rest == Len(valences) - half
        first == SeqSum(SubSeq(valences, 1, half))
        second == SeqSum(SubSeq(valences, half + 1, Len(valences)))
    IN  IF direction = "up"
        THEN second * half - first * rest > 20 * half * rest
        ELSE first * rest - second * half > 20 * half * rest

\* C23: for a history with at least 4 annotated exchanges the trend compares
\* the mean valence of the first floor(n/2) annotated exchanges with the mean
\* of the remaining ones: Improving exactly when the second mean exceeds the
\* first by strictly more than 0.2, Declining exactly when it is lower by
\* strictly more than 0.2, Stable otherwise, a difference of exactly 0.2
\* included.
C23_TrendThreshold ==
    (ret.fn = "_analyze_conversation_emotional_patterns"
        /\ Len(ValencesOf(args.conversation_history)) >= 4) =>
        LET valences == ValencesOf(args.conversation_history)
        IN  ret.value.trend =
                IF MeanDifferenceBeyond(valences, "up")
                    THEN "Improving Emotional State"
                ELSE IF MeanDifferenceBeyond(valences, "down")
                    THEN "Declining Emotional State"
                ELSE "Stable Emotional State"

\* the exchanges of a history that carry the valence, arousal and confidence
\* annotations
FullyAnnotated(h) ==
    SelectSeq(h, LAMBDA exchange :
                    {"valence", "arousal", "confidence"} \subseteq DOMAIN exchange)

\* C24: an exchange counts for trend analysis exactly when it carries the
\* valence, arousal and confidence annotations, whether or not it has an
\* emotion label: the analyzer returns None when no exchange carries them, and
\* otherwise a summary whose count and mean valence are those of the exchanges
\* that carry them.
C24_AnnotatedFilter ==
    ret.fn = "_analyze_conversation_emotional_patterns" =>
        LET kept == FullyAnnotated(args.conversation_history)
            valences == [i \in 1..Len(kept) |-> kept[i].valence]
        IN  IF kept = <<>> THEN ret.value = None
            ELSE /\ ret.value # None
                 /\ ret.value.total_exchanges = Len(kept)
                 /\ ret.value.avg_valence = <<SeqSum(valences), Len(kept)>>

\* the text contains a marker of the lexicon, letter case set aside
ContainsMarker(text) ==
    \E indicator \in feedback_indicators : Contains(Lower(text), Lower(indicator))

\* C25: every marker of the feedback lexicon is effective: a text containing
\* a marker, in any letter case, is flagged feedback_detected with priority
\* SOLVE_PROBLEM by _detect_feedback_and_adjust_strategy.
C25_EveryMarkerEffective ==
    (ret.fn = "_detect_feedback_and_adjust_strategy" /\ ret.times = 1
        /\ ContainsMarker(args.text)) =>
        /\ Flag(ret.value)
        /\ Priority(ret.value) = "SOLVE_PROBLEM"

\* C26: when /analyze answers with the identifier of a stored record, that
\* record holds every field of the returned analysis (input text, rephrased
\* text, original text, language, sentiment, scores, emotion, valence,
\* arousal, confidence, adaptive response, session id, timestamp) with the
\* value returned to the caller.
C26_StoredAsReturned ==
    (http.pc = "responded" /\ http.response.status = 200
        /\ http.response.analysis_id # NoId) =>
        \A i \in 1..Len(db.emotion_analyses) :
            db.emotion_analyses[i].id = http.response.analysis_id =>
                \A field \in ResultKeys :
                    /\ field \in DOMAIN db.emotion_analyses[i]
                    /\ db.emotion_analyses[i][field] = http.response.analysis[field]

\* the step of a DELETE /sessions/{id}: the tables change outside a request
DeleteStep == http' = http /\ db' # db

\* the stored summary of a session, None when it has no row
SummaryOf(tables, session_id) ==
    IF session_id \in DOMAIN tables.user_sessions
    THEN tables.user_sessions[session_id]
    ELSE None

C30_IdExactlyWhenStored ==
    [][AnswersComputedAnalysis =>
          /\ http'.response.analysis_id = NoId
                 <=> db'.emotion_analyses = db.emotion_analyses
          /\ db'.emotion_analyses # db.emotion_analyses =>
                 /\ Len(db'.emotion_analyses) = Len(db.emotion_analyses) + 1
                 /\ db'.emotion_analyses[Len(db'.emotion_analyses)].id
                        = http'.response.analysis_id]_vars

----------------------------------------------------------------------------
(* Specification SpecWorkers: /analyze requests handled at the same time by *)
(* several workers over one database.  process_text shares nothing between  *)
(* requests, so each request starts with its analysis computed; the steps   *)
(* are the statements the database sees (main.py lines 121-136,             *)
(* database_service.py lines 25-78 and 111-169).  The schedules in which    *)
(* one request finishes before the next starts are those of a single event  *)
(* loop, whose handlers do not await after the body is parsed.              *)
(* In this specification http holds one request per worker.                 *)

MaxWorkers == 2

Workers == 1..MaxWorkers

\* the result process_text returns for a text, the sentiment service
\* answering POSITIVE with the scores of scenario A
ComputedAnalysis(text, session_id) ==
    LET emotion_data == map_sentiment_to_emotion("POSITIVE", ScenarioA.scores)
    IN  [input_text |-> preprocess_text(text),
         rephrased_text |-> [message |-> preprocess_text(text)],
         original_text |-> text,
         language |-> "en",
         sentiment |-> "POSITIVE",
         sentiment_scores |-> ScenarioA.scores,
         emotion |-> emotion_data.emotion,
         valence |-> emotion_data.valence,
         arousal |-> emotion_data.arousal,
         confidence |-> emotion_data.confidence,
         adaptive_response |-> generate_adaptive_response(emotion_data, <<>>),
         session_id |-> session_id,
         timestamp |-> "utcnow"]

InitWorkers ==
    /\ args = <<>>
    /\ ret = NotCalled
    /\ pc = "idle"
    /\ frame = <<>>
    /\ calls = <<>>
    /\ openai_client = FALSE
    /\ http \in [Workers -> [pc : {"computed"},
                             text : {<<"ok">>, <<"word5000">>},
                             session_id : {"s1", "s2"}]]
    /\ \E use_dynamodb \in BOOLEAN : db = [use_dynamodb |-> use_dynamodb] @@ NoRows

\* _update_session_sql lines 159-166 and _update_session_dynamodb lines
\* 124-145, after the read found or did not find the session: an update of the
\* row found; else an insert, which on the SQL backend violates the unique
\* session_id (models/database.py line 85) when a row has appeared since, and
\* on DynamoDB replaces that row
write_session(sessions, session_id, found, now, use_dynamodb) ==
    IF found \/ session_id \notin DOMAIN sessions
        THEN [sessions |-> update_session(sessions, session_id, 1, now),
              raised |-> FALSE]
    ELSE IF use_dynamodb
        THEN [sessions |-> [sessions EXCEPT ![session_id] =
                               [created_at |-> now, last_activity |-> now,
                                total_analyses |-> 1]],
              raised |-> FALSE]
    ELSE [sessions |-> sessions, raised |-> TRUE]

\* main.py line 122, save_emotion_analysis: the record inserted
SaveAnalysis ==
    \E w \in Workers :
        /\ http[w].pc = "computed"
        /\ LET analysis_id == "analysis-" \o ToString(Len(db.emotion_analyses) + 1)
               result == ComputedAnalysis(http[w].text, http[w].session_id)
           IN  /\ db' = [db EXCEPT !.emotion_analyses =
                            save_emotion_analysis(@, result, analysis_id)]
               /\ http' = [http EXCEPT ![w] =
                              [pc |-> "saved", result |-> result,
                               analysis_id |-> analysis_id] @@ @]
        /\ UNCHANGED <<args, ret, agentVars>>

\* main.py line 124, update_session: the session looked up (database_service
\* lines 122 and 154)
ReadSession ==
    \E w \in Workers :
        /\ http[w].pc = "saved"
        /\ http' = [http EXCEPT ![w] =
                       [pc |-> "session_read",
                        found |-> http[w].session_id \in DOMAIN db.user_sessions]
                       @@ @]
        /\ UNCHANGED <<args, ret, agentVars, db>>

\* update_session: the session written; main.py lines 125-136: a raised
\* exception leaves analysis_id None, and the response is returned
WriteSessionAndRespond ==
    \E w \in Workers :
        /\ http[w].pc = "session_read"
        /\ LET written == write_session(db.user_sessions, http[w].session_id,
                                        http[w].found, w, db.use_dynamodb)
           IN  /\ db' = [db EXCEPT !.user_sessions = written.sessions]
               /\ http' = [http EXCEPT ![w] =
                              [pc |-> "responded",
                               response |->
                                   [status |-> 200,
                                    success |-> TRUE,
                                    analysis |-> http[w].result,
                                    session_id |-> http[w].session_id,
                                    analysis_id |-> IF written.raised THEN NoId
                                                    ELSE http[w].analysis_id]]
                              @@ @]
        /\ UNCHANGED <<args, ret, agentVars>>

NextWorkers ==
    \/ SaveAnalysis
    \/ ReadSession
    \/ WriteSessionAndRespond

SpecWorkers == InitWorkers /\ [][NextWorkers]_vars

\* C28: two requests handled at the same time with the same session id, which
\* no row has yet, do not interfere: once both are answered, both analyses are
\* stored, each response carries the identifier of its own record, and one
\* session summary exists for the session id.
C28_NoInterference ==
    \A v, w \in Workers :
        (v # w /\ http[v].pc = "responded" /\ http[w].pc = "responded"
            /\ http[v].session_id = http[w].session_id) =>
            /\ Len(RecordsOf(db, http[w].session_id)) >= 2
            /\ http[w].response.analysis_id = http[w].analysis_id
            /\ http[w].response.analysis_id # http[v].response.analysis_id
            /\ \E i \in 1..Len(db.emotion_analyses) :
                   /\ db.emotion_analyses[i].id = http[w].response.analysis_id
                   /\ db.emotion_analyses[i].input_text = http[w].result.input_text
            /\ http[w].session_id \in DOMAIN db.user_sessions

----------------------------------------------------------------------------
(* Specification SpecReach: the strategy of the vector process_text builds, *)
(* for every score of the grid as the highest score, a text with and        *)
(* without a feedback marker, and an absent, Improving and Declining        *)
(* history                                                                  *)

\* score maps whose highest score is every thousandth from 0 to 1
ReachScores ==
    {[Positive |-> c, Negative |-> 0, Neutral |-> 0, Mixed |-> 0] : c \in 0..1000}

ReachTexts == {<<"ok">>, <<"I", " ", "HATE">>}

\* the history of scenario D, whose valence rises, and the same reversed
DecliningHistory ==
    [i \in 1..Len(ScenarioDHistory) |-> ScenarioDHistory[Len(ScenarioDHistory) + 1 - i]]

ReachHistories == {<<>>, ScenarioDHistory, DecliningHistory}

InitReach ==
    /\ args \in [sentiment : SentimentInputs,
                 scores : ReachScores,
                 text : ReachTexts,
                 conversation_history : ReachHistories]
    /\ ret = NotCalled
    /\ AgentIdle

ClassifyAdjusted ==
    /\ ret = NotCalled
    /\ LET emotion_data == adjusted_vector(args.sentiment, args.scores, args.text,
                                           args.conversation_history)
       IN  ret' = [fn |-> "_determine_response_strategy",
                   vector |-> emotion_data,
                   value |-> classify(emotion_data)]
    /\ UNCHANGED <<args, agentVars, apiVars>>

NextReach == ClassifyAdjusted

SpecReach == InitReach /\ [][NextReach]_vars

\* the labels the pipeline never produces
UnreachableLabels ==
    {"HIGHLY_DEPRESSED_GENTLE_SUPPORT", "HIGHLY_CONTENT_DEEP_CONVERSATION",
     "UNCERTAIN_BUT_ENERGETIC_EXPLORATION"}

\* C29 as stated: for each of the 12 labels there are a sentiment label, a
\* score map, a text and a history for which the vector built by the mapper
\* and adjusted by feedback detection and the trend nudge is classified with
\* that label.
C29_Original ==
    ret.fn = "_determine_response_strategy" =>
        \A label \in StrategyLabels :
            \E sentiment \in SentimentInputs, scores \in ReachScores,
               text \in ReachTexts, history \in ReachHistories :
                classify(adjusted_vector(sentiment, scores, text, history)) = label

\* C29, amended: the vector built by the mapper and adjusted by feedback
\* detection and the trend nudge is never classified
\* HIGHLY_DEPRESSED_GENTLE_SUPPORT, HIGHLY_CONTENT_DEEP_CONVERSATION or
\* UNCERTAIN_BUT_ENERGETIC_EXPLORATION; it is classified with one of the other
\* nine labels.
C29_ReachableLabels ==
    ret.fn = "_determine_response_strategy" =>
        /\ ret.value \in StrategyLabels \ UnreachableLabels
        /\ ret.value \in {"HIGHLY_EXCITED_DETAILED_EXPLORATION",
                          "HIGHLY_STRESSED_URGENT_SUPPORT"}
               => ret.vector.arousal > 40
        /\ ret.vector.arousal >= 60 => ret.vector.confidence > 40

\* a NEGATIVE result raised by feedback and nudged down by a Declining history
\* reaches the high tier's stressed band
C29_Witness ==
    /\ ret.fn = "_determine_response_strategy"
    /\ args.sentiment = "NEGATIVE"
    /\ args.text = <<"I", " ", "HATE">>
    /\ args.conversation_history = DecliningHistory
    /\ ret.vector.confidence > 70
    /\ ret.value = "HIGHLY_STRESSED_URGENT_SUPPORT"

====
